---- MODULE Spec2Model ----
(***************************************************************************)
(* Model of the liked-songs analyser: the genre text engine                *)
(* (utils/genreSearch, hooks/useGenreFilter), the bounded-concurrency      *)
(* mapper (lastfm.ts) and the fetch pipeline (hooks/useSpotify, spotify.ts)*)
(*                                                                         *)
(* A string is a sequence of one-character strings.                        *)
(***************************************************************************)
EXTENDS Integers, Sequences, FiniteSets, TLC

VARIABLES
    \* ---- App / useGenreFilter / GenreFilter state
    selectedGenre,  \* useGenreFilter: the filter text
    genreSource,    \* App: 'spotify' | 'lastfm' | 'both'
    showAnalysis,   \* App: the analysis pages are shown instead of the home page
    \* ---- useSpotify state
    songs,          \* the published TrackWithGenres[]
    genreStats,     \* the published GenreStats, or NoGenreStats
    loading,
    loadingState,   \* [phase, progressKey, progress]
    error,          \* the error message, or Null
    \* ---- one run of fetchAllLikedSongs
    pc,             \* where the run is suspended
    allSongs,       \* track ids collected so far
    offset,
    hasMore,
    estimatedTotal,
    \* ---- the world around the run
    accessToken,
    library,        \* upstream: the liked tracks, newest first
    cache,          \* the response cache: a set of [key, response]
    runs,           \* runs started so far
    faults,         \* non-success answers given so far
    pageLog,        \* observation: the answers getLikedSongs received
    lastfmEnabled,  \* VITE_LASTFM_API_KEY is set and enableLastfm is on
    \* ---- getMultipleArtists, as called by the run
    artistIds,      \* the ids the run passes to getMultipleArtists
    chunkIdx,       \* index of the chunk the for loop is at
    genreMap,
    completedChunks,
    artistRetry,    \* the chunk is being retried by a nested call
    artistLog,      \* observation: the progress calls and the returned map
    \* ---- the Last.fm fan-out of the run
    completed,
    lkp,            \* per invocation of fn in flight: where its lookup is and,
                    \* as observation, what each strategy tried so far yielded
    \* ---- mapWithConcurrency (one call)
    mItems,         \* items
    mConcurrency,   \* concurrency argument
    mResults,       \* results array (index 0 is position 1)
    nextIndex,      \* shared work-queue index
    mInFlight,      \* indices whose fn invocation has started and not settled
    mWorkers,       \* number of worker promises not yet settled
    mState,         \* "idle" | "running" | "resolved" | "rejected"
    mProduced,      \* observation: value fn produced for each index
    mCalls,         \* observation: order in which fn was invoked
    mReordered,     \* observation: some index settled before a smaller one
    \* ---- the cache's surroundings
    now,            \* the clock, in hours
    storage,        \* IndexedDB: "ok" | "failing"
    lastFetch,      \* observation: what the last cachedFetch call returned
    \* ---- the text functions, applied to a label
    labelIn,        \* the label handed to the function
    tagsIn,         \* the tag names an upstream answer holds
    probe,          \* observation: what the last application returned
    \* ---- one request that is being rate-limited
    retry,          \* who asks, where it is, and the waits it has slept so far
    \* ---- an upstream that answers with pages of its own making
    upstream        \* per page its next, total and number of items; <<>>: the
                    \* pages are those of the library

uiVars   == <<selectedGenre, genreSource, showAnalysis>>
hookVars == <<songs, genreStats, loading, loadingState, error>>
pageVars == <<allSongs, offset, hasMore, estimatedTotal>>
envVars  == <<accessToken, library, cache, runs, faults, pageLog, lastfmEnabled>>
artistVars == <<artistIds, chunkIdx, genreMap, completedChunks, artistRetry, artistLog>>
fanVars  == <<completed, lkp>>
runVars  == <<hookVars, pc, pageVars, envVars, artistVars, fanVars>>
mapVars == <<mItems, mConcurrency, mResults, nextIndex, mInFlight, mWorkers,
             mState, mProduced, mCalls, mReordered>>
storeVars == <<now, storage, lastFetch>>
textVars  == <<labelIn, tagsIn, probe, retry, upstream>>
\* what neither a run nor the mapper touches
sideVars  == <<uiVars, storeVars, textVars>>
vars    == <<uiVars, runVars, mapVars, storeVars, textVars>>

-----------------------------------------------------------------------------
(* Characters and string helpers (JavaScript String methods)               *)

UpperChars == <<"A","B","C","D","E","F","G","H","I","J","K","L","M",
                "N","O","P","Q","R","S","T","U","V","W","X","Y","Z">>
LowerChars == <<"a","b","c","d","e","f","g","h","i","j","k","l","m",
                "n","o","p","q","r","s","t","u","v","w","x","y","z">>
Digits     == {"0","1","2","3","4","5","6","7","8","9"}
Whitespace == {" ", "\t", "\n"}

Range(f) == {f[i] : i \in DOMAIN f}

\* String.prototype.toLowerCase, one character
LowerOf == [c \in Range(UpperChars) |->
               LowerChars[CHOOSE i \in DOMAIN UpperChars : UpperChars[i] = c]]

lowerChar(c) == IF c \in DOMAIN LowerOf THEN LowerOf[c] ELSE c

toLowerCase(s) == [i \in DOMAIN s |-> lowerChar(s[i])]

RECURSIVE trimStart(_)
trimStart(s) ==
    IF s = <<>> THEN <<>>
    ELSE IF Head(s) \in Whitespace THEN trimStart(Tail(s)) ELSE s

RECURSIVE trimEnd(_)
trimEnd(s) ==
    IF s = <<>> THEN <<>>
    ELSE IF s[Len(s)] \in Whitespace THEN trimEnd(SubSeq(s, 1, Len(s) - 1)) ELSE s

\* String.prototype.trim
trim(s) == trimEnd(trimStart(s))

\* String.prototype.includes
includes(g, term) ==
    \E i \in 0..(Len(g) - Len(term)) : SubSeq(g, i + 1, i + Len(term)) = term

\* String.prototype.startsWith, for a one-character prefix
startsWith(s, c) == Len(s) > 0 /\ s[1] = c

\* s.replace(/c/g, by) for a single character c
RECURSIVE replaceChar(_, _, _)
replaceChar(s, c, by) ==
    IF s = <<>> THEN <<>>
    ELSE (IF Head(s) = c THEN by ELSE <<Head(s)>>) \o replaceChar(Tail(s), c, by)

\* s.replace(/\s+/g, " ")
RECURSIVE collapseWhitespace(_)
collapseWhitespace(s) ==
    IF s = <<>> THEN <<>>
    ELSE IF Head(s) \in Whitespace
         THEN <<" ">> \o collapseWhitespace(trimStart(s))
         ELSE <<Head(s)>> \o collapseWhitespace(Tail(s))

\* s.replace(/[^a-z0-9]/g, "")
stripNonAlnum(s) == SelectSeq(s, LAMBDA c : c \in Range(LowerChars) \cup Digits)

\* s.replace(/pat/g, by) for a literal pattern: leftmost, non-overlapping
RECURSIVE replaceAll(_, _, _)
replaceAll(s, pat, by) ==
    IF Len(s) < Len(pat) THEN s
    ELSE IF SubSeq(s, 1, Len(pat)) = pat
         THEN by \o replaceAll(SubSeq(s, Len(pat) + 1, Len(s)), pat, by)
         ELSE <<Head(s)>> \o replaceAll(Tail(s), pat, by)

\* the elements of list at the positions of keep, in order
pick(list, keep) ==
    LET l  == list
        s  == keep
        at == SelectSeq([i \in DOMAIN l |-> i], LAMBDA i : i \in s)
    IN  [k \in DOMAIN at |-> l[at[k]]]

\* Array.from(new Set(list)): first occurrences, in order
uniqueLabels(list) ==
    LET l == list
    IN  pick(l, {i \in DOMAIN l : \A j \in 1..(i - 1) : l[j] # l[i]})

\* Array.prototype.flat / flatMap
RECURSIVE flatten(_)
flatten(ss) ==
    IF ss = <<>> THEN <<>>
    ELSE IF Len(ss) = 1 THEN ss[1]
    ELSE LET half == Len(ss) \div 2
         IN  flatten(SubSeq(ss, 1, half)) \o flatten(SubSeq(ss, half + 1, Len(ss)))

-----------------------------------------------------------------------------
(* utils/genreSearch                                                       *)

\* the alias is collapsed before the non-alphanumerics are stripped
toGenreSearchKey_aliasFirst(s) ==
    LET t0 == trim(toLowerCase(s))
        t1 == trim(collapseWhitespace(
                  replaceChar(replaceChar(t0, "&", <<" ","a","n","d"," ">>),
                              "+", <<" ","a","n","d"," ">>)))
        t2 == replaceAll(t1, <<"r","a","n","d","b">>, <<"r","n","b">>)
    IN  IF t0 = <<>> THEN <<>> ELSE stripNonAlnum(t2)

toGenreSearchKey(s) ==
    LET t0 == trim(toLowerCase(s))
        t1 == trim(collapseWhitespace(
                  replaceChar(replaceChar(t0, "&", <<" ","a","n","d"," ">>),
                              "+", <<" ","a","n","d"," ">>)))
        t2 == stripNonAlnum(t1)
    IN  IF t0 = <<>> THEN <<>>
        ELSE replaceAll(t2, <<"r","a","n","d","b">>, <<"r","n","b">>)

allDigits(s) == Len(s) > 0 /\ \A i \in DOMAIN s : s[i] \in Digits

\* /^-?\d+$/
matchesInteger(t) ==
    \/ allDigits(t)
    \/ startsWith(t, "-") /\ allDigits(Tail(t))

\* /^-?\d+s$/
matchesIntegerS(t) ==
    /\ Len(t) > 0
    /\ t[Len(t)] = "s"
    /\ matchesInteger(SubSeq(t, 1, Len(t) - 1))

\* /^\d+\s*-\s*\d+$/
matchesRange(t) ==
    \E i \in DOMAIN t :
        /\ t[i] = "-"
        /\ allDigits(trimEnd(SubSeq(t, 1, i - 1)))
        /\ allDigits(trimStart(SubSeq(t, i + 1, Len(t))))
        /\ Len(trimStart(SubSeq(t, 1, i - 1))) = i - 1
        /\ Len(trimEnd(SubSeq(t, i + 1, Len(t)))) = Len(t) - i

\* \d+(?:-\d+)*  : digit groups joined by single dashes
RECURSIVE digitGroups(_)
digitGroups(t) ==
    \/ allDigits(t)
    \/ \E i \in DOMAIN t :
          t[i] = "-" /\ allDigits(SubSeq(t, 1, i - 1)) /\ digitGroups(SubSeq(t, i + 1, Len(t)))

\* /^-?\d+(?:-\d+)+$/
matchesMultiRange(t) ==
    LET u == IF startsWith(t, "-") THEN Tail(t) ELSE t
    IN  digitGroups(u) /\ ~allDigits(u)

\* without the multi-segment pattern of line 30
isSpamGenreLabel_noSegments(label) ==
    LET t == toLowerCase(trim(label))
    IN  \/ t = <<>>
        \/ matchesInteger(t)
        \/ matchesIntegerS(t)
        \/ matchesRange(t)

isSpamGenreLabel(label) ==
    LET t == toLowerCase(trim(label))
    IN  \/ t = <<>>
        \/ matchesInteger(t)
        \/ matchesIntegerS(t)
        \/ matchesRange(t)
        \/ matchesMultiRange(t)

\* every label is kept, numeric ones included
filterGenreLabels_keepAll(labels) == labels

filterGenreLabels(labels) == SelectSeq(labels, LAMBDA l : ~isSpamGenreLabel(l))

Separators == {",", "|"}

\* input.split(/[,\|]+/g): a run of separators is one delimiter
RECURSIVE splitFrom(_, _, _)
splitFrom(s, cur, inSep) ==
    IF s = <<>> THEN <<cur>>
    ELSE IF Head(s) \in Separators
         THEN IF inSep THEN splitFrom(Tail(s), cur, TRUE)
                       ELSE <<cur>> \o splitFrom(Tail(s), <<>>, TRUE)
         ELSE splitFrom(Tail(s), Append(cur, Head(s)), FALSE)

splitTerms(input) == splitFrom(input, <<>>, FALSE)

\* .split(...).map(s => s.trim()).filter(Boolean)
rawTerms(input) ==
    SelectSeq([i \in DOMAIN splitTerms(input) |-> trim(splitTerms(input)[i])],
              LAMBDA s : s # <<>>)

\* only the dash marks an exclude term
isExcludeTerm_dashOnly(term) == startsWith(term, "-")

isExcludeTerm(term) == startsWith(term, "-") \/ startsWith(term, "!")

termKey(term) ==
    toGenreSearchKey(IF isExcludeTerm(term) THEN trim(Tail(term)) ELSE term)

RECURSIVE parseTerms(_, _, _)
parseTerms(raw, include, exclude) ==
    IF raw = <<>> THEN [include |-> include, exclude |-> exclude]
    ELSE LET term == Head(raw)
             key  == termKey(term)
         IN  IF key = <<>> THEN parseTerms(Tail(raw), include, exclude)
             ELSE IF isExcludeTerm(term)
                  THEN parseTerms(Tail(raw), include,
                           IF key \in Range(exclude) THEN exclude ELSE Append(exclude, key))
                  ELSE parseTerms(Tail(raw),
                           IF key \in Range(include) THEN include ELSE Append(include, key),
                           exclude)

parseGenreQuery(input) == parseTerms(rawTerms(input), <<>>, <<>>)

-----------------------------------------------------------------------------
(* lastfm.ts: tag clean-up                                                 *)

normalizeTag(tag) == toLowerCase(trim(tag))

\* /^\d{4}$/
matchesYear(t) == Len(t) = 4 /\ allDigits(t)

\* /^\d{2,4}s$/
matchesDecade(t) ==
    /\ Len(t) \in 3..5
    /\ t[Len(t)] = "s"
    /\ allDigits(SubSeq(t, 1, Len(t) - 1))

JunkWords == { <<"s","e","e","n"," ","l","i","v","e">>,
               <<"f","a","v","o","r","i","t","e","s">>,
               <<"f","a","v","o","u","r","i","t","e","s">>,
               <<"f","a","v","o","r","i","t","e">>,
               <<"f","a","v","o","u","r","i","t","e">>,
               <<"s","p","o","t","i","f","y">> }

isJunkTag(tag) ==
    LET t == toLowerCase(trim(tag))
    IN  \/ t = <<>>
        \/ t \in JunkWords
        \/ matchesYear(t)
        \/ matchesDecade(t)
        \/ matchesInteger(t)
        \/ matchesIntegerS(t)
        \/ matchesRange(t)
        \/ matchesMultiRange(t)

\* fetchLastfm*TopTags: names -> normalizeTag -> drop empty and junk
cleanTagNames(names) ==
    SelectSeq([i \in DOMAIN names |-> normalizeTag(names[i])],
              LAMBDA t : t # <<>> /\ ~isJunkTag(t))

\* getLastfmTrackTags, lines 205-216: dedupe preserving order, stop at limit
RECURSIVE dedupeLimit(_, _, _)
dedupeLimit(gathered, unique, limit) ==
    IF gathered = <<>> THEN unique
    ELSE LET u == IF Head(gathered) \in Range(unique) THEN unique
                  ELSE Append(unique, Head(gathered))
         IN  IF Len(u) >= limit THEN u ELSE dedupeLimit(Tail(gathered), u, limit)

TagLimit == 5          \* useSpotify: { limit: 5 }
DefaultTagLimit == 5   \* getLastfmTrackTags: options?.limit ?? 5

\* line 172
limitOf(options) ==
    IF "limit" \in DOMAIN options THEN options.limit ELSE DefaultTagLimit

\* lines 193-216 once the strategies have answered: the tags of the first
\* strategy with any tag, de-duplicated and cut
trackTags(answers, options) ==
    LET cleaned == [i \in DOMAIN answers |-> cleanTagNames(answers[i])]
        won     == {i \in DOMAIN answers : cleaned[i] # <<>>}
        gathered == IF won = {} THEN <<>>
                    ELSE cleaned[CHOOSE i \in won : \A o \in won : i <= o]
    IN  dedupeLimit(gathered, <<>>, limitOf(options))

-----------------------------------------------------------------------------
(* hooks/useSpotify: building the published songs                          *)

\* lines 178-199: one song with the Spotify genres of its artists
songWithGenresBase(track, artistGenres) ==
    LET uniqueGenres == uniqueLabels(filterGenreLabels(artistGenres))
    IN  [track |-> track, spotifyGenres |-> uniqueGenres,
         lastfmGenres |-> <<>>, genres |-> uniqueGenres]

\* new Set([...spotifyGenres, ...lastfmGenres])
mergedGenres(spotifyGenres, lastfmGenres) == uniqueLabels(spotifyGenres \o lastfmGenres)

\* lines 256-266: merge the Last.fm tags of the song
songWithLastfm(s, tags) ==
    LET lastfmGenres == filterGenreLabels(tags)
    IN  [s EXCEPT !.lastfmGenres = lastfmGenres,
                  !.genres = mergedGenres(s.spotifyGenres, lastfmGenres)]

-----------------------------------------------------------------------------
(* App.songsForUi and hooks/useGenreFilter                                 *)

GenreSources == {"spotify", "lastfm", "both"}

uiGenres(s, source) ==
    IF source = "spotify" THEN s.spotifyGenres
    ELSE IF source = "lastfm" THEN s.lastfmGenres
    ELSE mergedGenres(s.spotifyGenres, s.lastfmGenres)

songsForUi(list, source) ==
    [i \in DOMAIN list |-> [list[i] EXCEPT !.genres = uiGenres(list[i], source)]]

genreKeys(song) ==
    SelectSeq([i \in DOMAIN song.genres |-> toGenreSearchKey(song.genres[i])],
              LAMBDA k : k # <<>>)

matchesAny(terms, keys) ==
    \E i \in DOMAIN terms : \E j \in DOMAIN keys : includes(keys[j], terms[i])

\* songMatches without the early return for a song that has no genre
songMatches_keepsEmpty(song, query) ==
    LET keys == genreKeys(song)
        matchesInclude == IF Len(query.include) = 0 THEN TRUE
                          ELSE matchesAny(query.include, keys)
    IN  IF ~matchesInclude THEN FALSE
        ELSE ~matchesAny(query.exclude, keys)

\* songMatches that never looks at the exclude list
songMatches_ignoresExclude(song, query) ==
    IF Len(song.genres) = 0 THEN FALSE
    ELSE IF Len(query.include) = 0 THEN TRUE
    ELSE matchesAny(query.include, genreKeys(song))

\* songMatches where a match on the include list settles the answer
songMatches_includeWins(song, query) ==
    IF Len(song.genres) = 0 THEN FALSE
    ELSE IF Len(query.include) > 0
         THEN matchesAny(query.include, genreKeys(song))
         ELSE ~matchesAny(query.exclude, genreKeys(song))

\* the filter callback, useGenreFilter lines 30-45
songMatches(song, query) ==
    IF Len(song.genres) = 0 THEN FALSE
    ELSE LET keys == genreKeys(song)
             matchesInclude == IF Len(query.include) = 0 THEN TRUE
                               ELSE matchesAny(query.include, keys)
         IN  IF ~matchesInclude THEN FALSE
             ELSE ~matchesAny(query.exclude, keys)

\* useGenreFilter lines 24-46 (query is the memoised parseGenreQuery)
filteredSongs(list, text) ==
    LET query == parseGenreQuery(text)
    IN  IF text = <<>> THEN list
        ELSE SelectSeq(list, LAMBDA song : songMatches(song, query))

-----------------------------------------------------------------------------
(* lastfm.ts: mapWithConcurrency                                           *)
(* Indices are 0-based as in the code; position idx + 1 of a sequence      *)
(* holds the element of index idx.                                         *)

Empty == "<empty>"     \* a slot of new Array(n) never assigned

Max(a, b) == IF a >= b THEN a ELSE b
Min(a, b) == IF a <= b THEN a ELSE b

\* one worker more than asked for
workerCount_oneMore(concurrency) == Max(1, concurrency) + 1

\* Array.from({ length: Math.max(1, concurrency) }, ...)
workerCount(concurrency) == Max(1, concurrency)

\* the value is put in the first free slot (completion order)
storeResult_push(results, idx, v) ==
    IF \E i \in DOMAIN results : results[i] = Empty
    THEN [results EXCEPT ![CHOOSE i \in DOMAIN results :
                               results[i] = Empty /\ \A j \in 1..(i - 1) : results[j] # Empty] = v]
    ELSE results

\* results[idx] = <value>
storeResult(results, idx, v) == [results EXCEPT ![idx + 1] = v]

\* lines 224-235, up to the first await: the array is sized, every worker
\* takes idx = nextIndex++ in turn and either returns or invokes fn
mapStart(items, concurrency) ==
    LET n == Len(items)
        w == workerCount(concurrency)
    IN  /\ mState # "running" /\ mInFlight = {}
        /\ mItems' = items
        /\ mConcurrency' = concurrency
        /\ mResults' = [i \in 1..n |-> Empty]
        /\ nextIndex' = w
        /\ mInFlight' = 0..(Min(w, n) - 1)
        /\ mWorkers' = Min(w, n)
        /\ mState' = IF Min(w, n) = 0 THEN "resolved" ELSE "running"
        /\ mProduced' = [i \in 1..n |-> Empty]
        /\ mCalls' = [i \in 1..Min(w, n) |-> i - 1]
        /\ mReordered' = FALSE

\* the worker invokes fn for the index it read without advancing nextIndex
mapResume_noAdvance(idx, v) ==
    LET next == nextIndex
        more == next < Len(mItems)
    IN  /\ idx \in mInFlight
        /\ mResults' = storeResult(mResults, idx, v)
        /\ mProduced' = [mProduced EXCEPT ![idx + 1] = v]
        /\ nextIndex' = next
        /\ mInFlight' = (mInFlight \ {idx}) \cup (IF more THEN {next} ELSE {})
        /\ mCalls' = IF more THEN Append(mCalls, next) ELSE mCalls
        /\ mReordered' = (mReordered \/ \E j \in mInFlight : j < idx)
        /\ mWorkers' = IF more THEN mWorkers ELSE mWorkers - 1
        /\ mState' = IF ~more /\ mWorkers = 1 /\ mState = "running"
                     THEN "resolved" ELSE mState
        /\ UNCHANGED <<mItems, mConcurrency>>

\* the worker awaiting fn(items[idx]) resumes with v: lines 229-231
mapResume(idx, v) ==
    LET next == nextIndex
        more == next < Len(mItems)
    IN  /\ idx \in mInFlight
        /\ mResults' = storeResult(mResults, idx, v)
        /\ mProduced' = [mProduced EXCEPT ![idx + 1] = v]
        /\ nextIndex' = next + 1
        /\ mInFlight' = (mInFlight \ {idx}) \cup (IF more THEN {next} ELSE {})
        /\ mCalls' = IF more THEN Append(mCalls, next) ELSE mCalls
        /\ mReordered' = (mReordered \/ \E j \in mInFlight : j < idx)
        /\ mWorkers' = IF more THEN mWorkers ELSE mWorkers - 1
        /\ mState' = IF ~more /\ mWorkers = 1 /\ mState = "running"
                     THEN "resolved" ELSE mState
        /\ UNCHANGED <<mItems, mConcurrency>>

\* fn(items[idx]) rejects: the worker's promise rejects and Promise.all with
\* it; the other workers are not stopped
mapReject(idx) ==
    /\ idx \in mInFlight
    /\ mInFlight' = mInFlight \ {idx}
    /\ mWorkers' = mWorkers - 1
    /\ mState' = IF mState = "running" THEN "rejected" ELSE mState
    /\ UNCHANGED <<mItems, mConcurrency, mResults, nextIndex, mProduced, mCalls,
                   mReordered>>

-----------------------------------------------------------------------------
(* Inputs of the genre engine                                              *)

HipHop    == <<"H","i","p"," ","H","o","p">>
hiphopTag == <<"h","i","p","-","h","o","p">>
Trap      == <<"t","r","a","p">>
TrapTag   == <<"T","r","a","p">>
RnB       == <<"R","&","B">>
rnbTag    == <<"r","n","b">>
Spam100   == <<"1","0","0">>

\* lines 178-268 for one track: Spotify genres of its artists, then the tags
\* getLastfmTrackTags returned for it (absent when Last.fm is disabled)
processSong(track, artistGenres, tagNames, withLastfm) ==
    LET base == songWithGenresBase(track, artistGenres)
    IN  IF withLastfm
        THEN songWithLastfm(base, dedupeLimit(cleanTagNames(tagNames), <<>>, TagLimit))
        ELSE base

\* the 3-track scenario: A has Spotify genre "Hip Hop", B has Last.fm tag
\* "trap", C has no genre
ScenarioLibrary ==
    << processSong(1, <<HipHop>>, <<>>, TRUE),
       processSong(2, <<>>, <<Trap>>, TRUE),
       processSong(3, <<>>, <<>>, TRUE) >>

MixedLibrary ==
    << processSong(1, <<HipHop, Trap>>, <<hiphopTag>>, TRUE),
       processSong(2, <<Trap>>, <<hiphopTag>>, TRUE),
       processSong(3, <<RnB>>, <<rnbTag, TrapTag>>, TRUE),
       processSong(4, <<Spam100>>, <<>>, TRUE),
       processSong(5, <<>>, <<hiphopTag>>, TRUE) >>

FilterLibraries == {ScenarioLibrary, MixedLibrary}

QueryChars  == {"h", "t", ",", "-", "!", " "}
MaxQueryLen == 4

qHop      == <<"h","o","p">>
qNotTrap  == <<"-","t","r","a","p">>
qExample  == <<"r","n","b",","," ","-","p","o","p",","," ","!","l","i","v","e">>
qBoth     == <<"h",",","t",",","-","h">>
qPipes    == <<" ","|",",","-"," ",",","!">>
qOrder    == <<"t","|","H",",","t","|","!","h","|","-"," ","t",",","-","h">>

SeedTexts == {<<>>, qHop, qNotTrap, qExample, qBoth, qPipes, qOrder}

-----------------------------------------------------------------------------
(* The hook before any run                                                 *)

Null   == "<null>"
Absent == "<absent>"
TokenA == "tokA"
TokenB == "tokB"

\* no cachedFetch call has been observed
NoFetch == [seq |-> 0, source |-> Absent]

LoadingState(phase, key, progress) ==
    [phase |-> phase, progressKey |-> key, progress |-> progress]

Progress(current, total) == [current |-> current, total |-> total]

\* progress: undefined
NoProgress == [undefined |-> TRUE]

IdleState == LoadingState("idle", Absent, NoProgress)

\* everything of the hook and of a run except the published songs
\* useState<GenreStats | null>(null)
NoGenreStats == [published |-> FALSE]

RunAtRest ==
    /\ genreStats = NoGenreStats
    /\ loading = FALSE
    /\ loadingState = IdleState
    /\ error = Null
    /\ pc = "idle"
    /\ allSongs = <<>>
    /\ offset = 0
    /\ hasMore = FALSE
    /\ estimatedTotal = 0
    /\ accessToken = TokenA
    /\ cache = {}
    /\ runs = 0
    /\ faults = 0
    /\ pageLog = <<>>
    /\ artistIds = <<>>
    /\ chunkIdx = 0
    /\ genreMap = <<>>
    /\ completedChunks = 0
    /\ artistRetry = FALSE
    /\ artistLog = <<>>
    /\ completed = 0
    /\ lkp = <<>>
    /\ now = 0
    /\ storage = "ok"
    /\ lastFetch = NoFetch

\* no text function has been applied
NoProbe  == [fn |-> Absent]
NoRetry  == [who |-> Absent, at |-> "idle", waits |-> <<>>]
TextIdle == labelIn = <<>> /\ tagsIn = <<>> /\ probe = NoProbe /\ retry = NoRetry
            /\ upstream = <<>>

-----------------------------------------------------------------------------
(* The mapper at rest                                                      *)

MapIdle ==
    /\ mItems = <<>>
    /\ mConcurrency = 0
    /\ mResults = <<>>
    /\ nextIndex = 0
    /\ mInFlight = {}
    /\ mWorkers = 0
    /\ mState = "idle"
    /\ mProduced = <<>>
    /\ mCalls = <<>>
    /\ mReordered = FALSE

-----------------------------------------------------------------------------
(* SpecFilter: the results page, a published list and the filter box       *)

InitFilter ==
    /\ showAnalysis = FALSE
    /\ RunAtRest
    /\ library = <<>>
    /\ lastfmEnabled = TRUE
    /\ songs \in FilterLibraries
    /\ selectedGenre \in SeedTexts
    /\ genreSource \in GenreSources
    /\ MapIdle
    /\ TextIdle

\* GenreFilter input onChange: onGenreChange(e.target.value), one more character
TypeChar(c) ==
    /\ Len(selectedGenre) < MaxQueryLen
    /\ selectedGenre' = Append(selectedGenre, c)
    /\ UNCHANGED <<genreSource, showAnalysis, runVars, mapVars, storeVars, textVars>>

\* GenreFilter "All" chip: onGenreChange("")
ClearFilter ==
    /\ selectedGenre # <<>>
    /\ selectedGenre' = <<>>
    /\ UNCHANGED <<genreSource, showAnalysis, runVars, mapVars, storeVars, textVars>>

\* App genre-source selector: setGenreSource(src)
SetGenreSource(src) ==
    /\ src # genreSource
    /\ genreSource' = src
    /\ UNCHANGED <<selectedGenre, showAnalysis, runVars, mapVars, storeVars, textVars>>

NextFilter ==
    \/ \E c \in QueryChars : TypeChar(c)
    \/ ClearFilter
    \/ \E src \in GenreSources : SetGenreSource(src)

SpecFilter == InitFilter /\ [][NextFilter]_vars

\* what the results page shows
shownSongs    == songsForUi(songs, genreSource)
shownFiltered == filteredSongs(shownSongs, selectedGenre)
shownQuery    == parseGenreQuery(selectedGenre)

-----------------------------------------------------------------------------
(* Claims about the filter, under SpecFilter                               *)

InList(list, x) == \E i \in DOMAIN list : list[i] = x
TrackIn(list, t) == \E i \in DOMAIN list : list[i].track = t

\* some genre of the song has a search key that contains key
GenreKeyContains(song, key) ==
    \E i \in DOMAIN song.genres : includes(toGenreSearchKey(song.genres[i]), key)

IncludeOk(song, q) ==
    \/ q.include = <<>>
    \/ \E i \in DOMAIN q.include : GenreKeyContains(song, q.include[i])

ExcludeHit(song, q) ==
    \E i \in DOMAIN q.exclude : GenreKeyContains(song, q.exclude[i])

KeysInBoth(q) == {k \in Range(q.include) : InList(q.exclude, k)}

InScenario == songs = ScenarioLibrary /\ genreSource = "both"

\* C6: whenever the filter text parses to no term at all (include = [] and
\* exclude = []), the filtered list is the full song list, songs with no
\* genres included.
C6_EmptyQueryMatchesAll ==
    (shownQuery.include = <<>> /\ shownQuery.exclude = <<>>) => shownFiltered = shownSongs

\* C7 as stated: for an exclude-only query the filter returns exactly the
\* songs none of whose genre keys contains an exclude key (songs with no
\* genres included); in the 3-track scenario "hop" returns only A, "-trap"
\* returns A and C but not B, the empty query returns all three.
C7_ExcludeOnlyKeepsGenreless ==
    LET q == shownQuery  all == shownSongs  out == shownFiltered
    IN  /\ (q.include = <<>> /\ q.exclude # <<>>) =>
              \A i \in DOMAIN all : InList(out, all[i]) <=> ~ExcludeHit(all[i], q)
        /\ (InScenario /\ selectedGenre = qHop) =>
              (TrackIn(out, 1) /\ ~TrackIn(out, 2) /\ ~TrackIn(out, 3))
        /\ (InScenario /\ selectedGenre = qNotTrap) =>
              (TrackIn(out, 1) /\ ~TrackIn(out, 2) /\ TrackIn(out, 3))
        /\ (InScenario /\ selectedGenre = <<>>) =>
              (TrackIn(out, 1) /\ TrackIn(out, 2) /\ TrackIn(out, 3))

\* C7 amended: for an exclude-only query the filter returns exactly the songs
\* that have at least one genre and none of whose genre keys contains an
\* exclude key; in the 3-track scenario "hop" returns only A, "-trap" returns
\* only A (neither B nor the genre-less C), the empty query returns all three.
C7_ExcludeOnlyDropsGenreless ==
    LET q == shownQuery  all == shownSongs  out == shownFiltered
    IN  /\ (q.include = <<>> /\ q.exclude # <<>>) =>
              \A i \in DOMAIN all :
                  InList(out, all[i]) <=>
                      (Len(all[i].genres) > 0 /\ ~ExcludeHit(all[i], q))
        /\ (InScenario /\ selectedGenre = qHop) =>
              (TrackIn(out, 1) /\ ~TrackIn(out, 2) /\ ~TrackIn(out, 3))
        /\ (InScenario /\ selectedGenre = qNotTrap) =>
              (TrackIn(out, 1) /\ ~TrackIn(out, 2) /\ ~TrackIn(out, 3))
        /\ (InScenario /\ selectedGenre = <<>>) =>
              (TrackIn(out, 1) /\ TrackIn(out, 2) /\ TrackIn(out, 3))

C7_Witness ==
    /\ InScenario
    /\ selectedGenre = qNotTrap
    /\ shownQuery = [include |-> <<>>, exclude |-> <<Trap>>]
    /\ Len(shownFiltered) = 1

\* C8: a song with an empty genre list is never returned by the filter for a
\* non-empty query (include-only, exclude-only or mixed).
C8_GenrelessNeverMatches ==
    LET q == shownQuery  all == shownSongs  out == shownFiltered
    IN  (q.include # <<>> \/ q.exclude # <<>>) =>
            \A i \in DOMAIN all : Len(all[i].genres) = 0 => ~InList(out, all[i])

C8_Witness ==
    LET q == shownQuery  all == shownSongs  out == shownFiltered
    IN  /\ q.include = <<>>
        /\ q.exclude # <<>>
        /\ \E i \in DOMAIN all : Len(all[i].genres) = 0 /\ ~InList(out, all[i])
        /\ out # <<>>

DedupedByKey(m, src) ==
    /\ \A a, b \in DOMAIN m :
          a # b => toGenreSearchKey(m[a]) # toGenreSearchKey(m[b])
    /\ \A j \in DOMAIN src :
          \E a \in DOMAIN m : toGenreSearchKey(m[a]) = toGenreSearchKey(src[j])
    /\ \A a \in DOMAIN m :
          \E j \in DOMAIN src :
              /\ src[j] = m[a]
              /\ \A h \in 1..(j - 1) : toGenreSearchKey(src[h]) # toGenreSearchKey(m[a])

\* C10: for every song the merged genre list (as published, and as rebuilt by
\* songsForUi for the source 'both') is the union of the Spotify and Last.fm
\* labels de-duplicated by search key: no two merged labels have the same
\* toGenreSearchKey, and the label kept for a key is the first one seen,
\* Spotify labels before Last.fm labels.
C10_MergedUniqueByKey ==
    \A i \in DOMAIN songs :
        LET src == songs[i].spotifyGenres \o songs[i].lastfmGenres
        IN  /\ DedupedByKey(songs[i].genres, src)
            /\ DedupedByKey(uiGenres(songs[i], "both"), src)

-----------------------------------------------------------------------------
(* SpecMap: one call of mapWithConcurrency with an arbitrary fn            *)

MaxItems       == 4
MaxConcurrency == 3

LastfmConcurrency == 8
FanOutItems       == 9

\* the value the mapping function produces for an item
fnValue(item) == <<"value", item>>

InitMap ==
    /\ showAnalysis = FALSE
    /\ RunAtRest
    /\ library = <<>>
    /\ lastfmEnabled = TRUE
    /\ songs = <<>>
    /\ selectedGenre = <<>>
    /\ genreSource = "both"
    /\ MapIdle
    /\ TextIdle

\* mapWithConcurrency(items, concurrency, fn) is called
MapCall(n, concurrency) ==
    /\ mapStart([i \in 1..n |-> i], concurrency)
    /\ UNCHANGED <<sideVars, runVars>>

\* an invocation of fn settles with a value
FnResolve(idx) ==
    /\ idx \in mInFlight
    /\ mapResume(idx, fnValue(mItems[idx + 1]))
    /\ UNCHANGED <<sideVars, runVars>>

\* an invocation of fn rejects
FnReject(idx) ==
    /\ mapReject(idx)
    /\ UNCHANGED <<sideVars, runVars>>

NextMap ==
    \/ \E n \in 0..MaxItems : \E c \in (-1)..MaxConcurrency : MapCall(n, c)
    \/ MapCall(FanOutItems, LastfmConcurrency)
    \/ \E idx \in mInFlight : FnResolve(idx)
    \/ \E idx \in mInFlight : FnReject(idx)

SpecMap == InitMap /\ [][NextMap]_vars

\* C3: when the call returns, the array has the length of the input and
\* result[i] is the value fn produced for items[i], whatever the order in
\* which the invocations completed.
C3_ResultsInInputOrder ==
    mState = "resolved" =>
        /\ Len(mResults) = Len(mItems)
        /\ \A i \in DOMAIN mItems : mProduced[i] # Empty /\ mResults[i] = mProduced[i]

\* a call that returned although an invocation completed before one of a
\* smaller index
C3_Witness ==
    /\ mState = "resolved"
    /\ Len(mItems) >= 3
    /\ mReordered

\* C4 as stated: the number of fn invocations started and not yet settled is
\* at most N, the concurrency argument.
C4_InFlightAtMostN == Cardinality(mInFlight) <= mConcurrency

\* C4 amended: the number of fn invocations started and not yet settled is at
\* most max(1, N): a concurrency argument below 1 still runs one worker; it is
\* at most 8 for the Last.fm fan-out.
C4_InFlightAtMostWorkers ==
    /\ Cardinality(mInFlight) <= Max(1, mConcurrency)
    /\ mConcurrency = LastfmConcurrency => Cardinality(mInFlight) <= 8

\* the limit is reached while items are still waiting
C4_Witness ==
    /\ mState = "running"
    /\ mConcurrency >= 2
    /\ Cardinality(mInFlight) = mConcurrency
    /\ nextIndex < Len(mItems)
    /\ \E i \in DOMAIN mResults : mResults[i] # Empty

-----------------------------------------------------------------------------
(* The upstream services, as a run sees them                               *)

limit     == 50    \* useSpotify: const limit = 50
ChunkSize == 50    \* getMultipleArtists: 50 artists per request

NoId == 0          \* an artist without an id (a local file)

NameA    == <<"A">>
NameB    == <<"B">>
NameC    == <<"C">>
Song     == <<"S","o","n","g">>
SongLive == <<"S","o","n","g"," ","-"," ","L","i","v","e">>
Tune     == <<"T","u","n","e">>

\* the liked track with id t: tracks 1 and 2 share their first artist, track
\* 3 has a second artist without id, every further track has its own artist
track(t) ==
    IF t = 1 THEN [id |-> 1, name |-> Song,
                   artists |-> <<[id |-> 1, name |-> NameA], [id |-> 2, name |-> NameB]>>]
    ELSE IF t = 2 THEN [id |-> 2, name |-> SongLive,
                        artists |-> <<[id |-> 1, name |-> NameA]>>]
    ELSE IF t = 3 THEN [id |-> 3, name |-> Tune,
                        artists |-> <<[id |-> 3, name |-> NameC], [id |-> NoId, name |-> NameB]>>]
    ELSE [id |-> t, name |-> Song, artists |-> <<[id |-> t, name |-> NameA]>>]

\* the genres Spotify reports for an artist
artistGenresOf(id) ==
    IF id = 1 THEN <<HipHop, Trap>>
    ELSE IF id = 2 THEN <<Trap, Spam100>>
    ELSE IF id = 51 THEN <<RnB>>
    ELSE <<>>

LibrarySizes == {0, 3, 51}
Libraries    == { [i \in 1..n |-> i] : n \in LibrarySizes }

\* GET /me/tracks?offset&limit
likedPage(off, lim) ==
    IF upstream = <<>>
    THEN LET n == Len(library)
         IN  [items |-> SubSeq(library, off + 1, Min(off + lim, n)),
              next  |-> IF off + lim < n THEN "next" ELSE Null,
              total |-> n]
    ELSE LET p == upstream[Min(off \div lim + 1, Len(upstream))]
         IN  [items |-> [i \in 1..p.count |-> off + i],
              next  |-> p.next,
              total |-> p.total]

\* GET /artists?ids=...
artistsBody(chunk) ==
    [artists |-> [i \in 1..Len(chunk) |-> [id |-> chunk[i], genres |-> artistGenresOf(chunk[i])]]]

-----------------------------------------------------------------------------
(* The response cache (cache.ts: get, set, clear)                          *)

\* the key is the url alone
spotifyKey_noToken(api, arg, token) == [api |-> api, arg |-> arg, token |-> Absent]

\* cachedFetch: url + JSON.stringify({method, headers}), the headers holding
\* the bearer token
spotifyKey(api, arg, token) == [api |-> api, arg |-> arg, token |-> token]

\* cachedJsonFetch: `lastfm:${url}`
lastfmKey(method, artist, title) ==
    [api |-> "lastfm", arg |-> <<method, artist, title>>, token |-> Absent]

\* the entries live 24 hours
TTL == 24

cacheEntry(key) == CHOOSE e \in cache : e.key = key

\* cache.get: the entry, unless it is missing, expired or the store fails
cacheHas(key) ==
    /\ storage = "ok"
    /\ \E e \in cache : e.key = key /\ now - e.storedAt < TTL

cacheGet(key) == cacheEntry(key).response

\* cache.set(key, response, headers): best effort, nothing is written when
\* the store fails
cachePut(store, key, response, headers) ==
    IF storage = "ok"
    THEN {e \in store : e.key # key}
            \cup {[key |-> key, response |-> response, headers |-> headers,
                   storedAt |-> now]}
    ELSE store

NoHeaders == <<>>

\* the run never reads the headers of a hit
cacheSet(store, key, response) == cachePut(store, key, response, NoHeaders)

-----------------------------------------------------------------------------
(* fetchAllLikedSongs: start, and the pagination loop (lines 57-134)       *)

MaxRuns   == 2
MaxFaults == 2

SongsProgress(found, total) ==
    LoadingState("fetching_songs", "songs",
                 IF total > 0 THEN Progress(found, total) ELSE NoProgress)

\* lines 66-101: the hook is set to loading, the locals are initialised and
\* the loop requests the first page
beginRun ==
    /\ loading' = TRUE
    /\ error' = Null
    /\ allSongs' = <<>>
    /\ offset' = 0
    /\ hasMore' = TRUE
    /\ estimatedTotal' = 0
    /\ loadingState' = SongsProgress(0, 0)
    /\ pageLog' = <<>>
    /\ artistLog' = <<>>
    /\ pc' = "page_wait"

\* the catch sets the message and leaves the phase as it was
failRun_phaseKept(message) ==
    /\ error' = message
    /\ loadingState' = loadingState
    /\ loading' = FALSE
    /\ pc' = "ended"

\* lines 294-302: catch and finally
failRun(message) ==
    /\ error' = message
    /\ loadingState' = IdleState
    /\ loading' = FALSE
    /\ pc' = "ended"

NoRunActive == pc \in {"idle", "ended", "rejected"} /\ mInFlight = {}

\* refetch() = fetchAllLikedSongs(false)
refetch ==
    /\ NoRunActive
    /\ runs < MaxRuns
    /\ accessToken # Null
    /\ runs' = runs + 1
    /\ beginRun
    /\ UNCHANGED <<storeVars, textVars, mapVars, songs, genreStats, accessToken, library,
                   cache, faults, lastfmEnabled, artistIds, chunkIdx, genreMap,
                   completedChunks, artistRetry, fanVars>>

\* refreshData() = fetchAllLikedSongs(true): suspended at await cache.clear()
refreshData ==
    /\ NoRunActive
    /\ runs < MaxRuns
    /\ accessToken # Null
    /\ runs' = runs + 1
    /\ pc' = "clearing"
    /\ UNCHANGED <<storeVars, textVars, mapVars, hookVars, pageVars, accessToken, library,
                   cache, faults, pageLog, lastfmEnabled, artistVars, fanVars>>

\* the hook's refetch is called
StartAnalysis == refetch /\ UNCHANGED uiVars

\* the hook's refreshData is called
RefreshData == refreshData /\ UNCHANGED uiVars

\* the run begins without the entries having been removed
CacheCleared_keepsEntries ==
    /\ pc = "clearing"
    /\ storage = "ok"
    /\ cache' = cache
    /\ beginRun
    /\ UNCHANGED <<sideVars, mapVars, songs, genreStats, accessToken, library, runs,
                   faults, lastfmEnabled, artistIds, chunkIdx, genreMap,
                   completedChunks, artistRetry, fanVars>>

\* cache.clear() resolves
CacheCleared ==
    /\ pc = "clearing"
    /\ storage = "ok"
    /\ cache' = {}
    /\ beginRun
    /\ UNCHANGED <<sideVars, mapVars, songs, genreStats, accessToken, library, runs,
                   faults, lastfmEnabled, artistIds, chunkIdx, genreMap,
                   completedChunks, artistRetry, fanVars>>

\* line 63: cache.clear() rejects. The await is before the try of line 74 and
\* refreshData (lines 314-316) neither awaits nor catches the call, so the
\* promise of fetchAllLikedSongs rejects unhandled: no setLoading, no setError,
\* no request
CacheClearFailed ==
    /\ pc = "clearing"
    /\ storage = "failing"
    /\ pc' = "rejected"
    /\ UNCHANGED <<sideVars, mapVars, hookVars, pageVars, accessToken, library, cache,
                   runs, faults, pageLog, lastfmEnabled, artistVars, fanVars>>

\* the store stops working between two runs (IndexedDB unavailable, quota, a
\* blocked database): from here on every read, write and clear of it fails
StorageFails ==
    /\ NoRunActive
    /\ storage = "ok"
    /\ storage' = "failing"
    /\ UNCHANGED <<uiVars, now, lastFetch, textVars, runVars, mapVars>>

\* lines 128-129: "Don't increment offset, retry the same request"
offsetAfterRateLimit_advance(off) == off + limit

offsetAfterRateLimit(off) == off

\* line 110
offsetAfterPage(off) == off + limit

pageKey == spotifyKey("tracks", <<offset, limit>>, accessToken)

logged(outcome, items) == [offset |-> offset, outcome |-> outcome, items |-> Len(items)]

\* a page that was returned is logged with its next and its total
loggedPage(response) ==
    [offset |-> offset, outcome |-> "ok", items |-> Len(response.items),
     next |-> response.next, total |-> response.total]

\* lines 102-113: a page was returned; the loop sleeps 100 ms
pageReceived(response) ==
    /\ allSongs' = allSongs \o response.items
    /\ estimatedTotal' = IF estimatedTotal = 0 THEN response.total ELSE estimatedTotal
    /\ hasMore' = (response.next # Null)
    /\ offset' = offsetAfterPage(offset)
    /\ pageLog' = Append(pageLog, loggedPage(response))
    /\ pc' = "page_delay"
    /\ UNCHANGED <<sideVars, mapVars, hookVars, accessToken, library, runs,
                   lastfmEnabled, artistVars, fanVars>>

\* cachedFetch finds the page in the cache
PageFromCache ==
    /\ pc = "page_wait"
    /\ cacheHas(pageKey)
    /\ pageReceived(cacheGet(pageKey))
    /\ UNCHANGED <<cache, faults>>

\* the network answers 200; cachedFetch stores the body
PageOk ==
    /\ pc = "page_wait"
    /\ ~cacheHas(pageKey)
    /\ cache' = cacheSet(cache, pageKey, likedPage(offset, limit))
    /\ pageReceived(likedPage(offset, limit))
    /\ UNCHANGED faults

\* the network answers 429: getLikedSongs throws RATE_LIMITED, the loop
\* publishes the wait and sleeps (lines 115-127)
PageRateLimited ==
    /\ pc = "page_wait"
    /\ ~cacheHas(pageKey)
    /\ faults < MaxFaults
    /\ faults' = faults + 1
    /\ loadingState' = LoadingState("fetching_songs", "songs", NoProgress)
    /\ offset' = offsetAfterRateLimit(offset)
    /\ pageLog' = Append(pageLog, logged("429", <<>>))
    /\ pc' = "rate_sleep"
    /\ UNCHANGED <<sideVars, mapVars, songs, genreStats, loading, error, allSongs,
                   hasMore, estimatedTotal, accessToken, library, cache, runs,
                   lastfmEnabled, artistVars, fanVars>>

PageFailures == {"http_error", "network"}

\* the failure also drops the songs published by the run before
PageFailed_clearsSongs(kind) ==
    /\ pc = "page_wait"
    /\ ~cacheHas(pageKey)
    /\ faults < MaxFaults
    /\ faults' = faults + 1
    /\ pageLog' = Append(pageLog, logged(kind, <<>>))
    /\ failRun(IF kind = "http_error" THEN "Failed to fetch liked songs"
                                      ELSE "Failed to fetch")
    /\ songs' = <<>>
    /\ UNCHANGED <<sideVars, mapVars, genreStats, pageVars, accessToken,
                   library, cache, runs, lastfmEnabled, artistVars, fanVars>>

\* another status ("Failed to fetch liked songs") or a rejected request
\* ("Failed to fetch"): rethrown to the outer catch
PageFailed(kind) ==
    /\ pc = "page_wait"
    /\ ~cacheHas(pageKey)
    /\ faults < MaxFaults
    /\ faults' = faults + 1
    /\ pageLog' = Append(pageLog, logged(kind, <<>>))
    /\ failRun(IF kind = "http_error" THEN "Failed to fetch liked songs"
                                      ELSE "Failed to fetch")
    /\ UNCHANGED <<sideVars, mapVars, songs, genreStats, pageVars, accessToken,
                   library, cache, runs, lastfmEnabled, artistVars, fanVars>>

\* the sleep after a 429 ends: continue, the loop head publishes the progress
\* and repeats the request
RateSleepDone ==
    /\ pc = "rate_sleep"
    /\ loadingState' = SongsProgress(Len(allSongs), estimatedTotal)
    /\ pc' = "page_wait"
    /\ UNCHANGED <<sideVars, mapVars, songs, genreStats, loading, error, pageVars,
                   envVars, artistVars, fanVars>>

-----------------------------------------------------------------------------
(* lastfm.ts: cleanTrackTitle (lines 78-109)                               *)

\* line 89
VersionWords == {
    <<"r","e","m","a","s","t","e","r">>, <<"l","i","v","e">>,
    <<"r","a","d","i","o"," ","e","d","i","t">>, <<"e","d","i","t">>,
    <<"v","e","r","s","i","o","n">>, <<"m","o","n","o">>,
    <<"s","t","e","r","e","o">>, <<"d","e","l","u","x","e">>,
    <<"e","x","p","l","i","c","i","t">> }

\* line 104: feat\.?|ft\.?|featuring
FeatMarkers == {
    <<"f","e","a","t">>, <<"f","e","a","t",".">>, <<"f","t">>, <<"f","t",".">>,
    <<"f","e","a","t","u","r","i","n","g">> }

\* line 99: the feat markers and the version words but "explicit"
BracketWords ==
    FeatMarkers \cup (VersionWords \ {<<"e","x","p","l","i","c","i","t">>})

DashSep  == <<" ", "-", " ">>
Openers  == {"(", "["}
Closers  == {")", "]"}

\* String.prototype.indexOf, 1-based; 0 when absent
indexOf(s, pat) ==
    IF includes(s, pat)
    THEN CHOOSE i \in 1..Len(s) :
            /\ SubSeq(s, i, i + Len(pat) - 1) = pat
            /\ \A j \in 1..(i - 1) : SubSeq(s, j, j + Len(pat) - 1) # pat
    ELSE 0

\* lines 84-95: a trailing " - <version marker>" is dropped
dropDashVersion(t) ==
    LET p == indexOf(t, DashSep)
    IN  IF p = 0 THEN t
        ELSE LET head == trim(SubSeq(t, 1, p - 1))
                 tail == toLowerCase(SubSeq(t, p + 3, Len(t)))
             IN  IF \E w \in VersionWords : includes(tail, w) THEN head ELSE t

\* length of the match of \s*[\(\[][^)\]]*(word)[^)\]]*[\)\]]\s* at the head
\* of s, or 0
bracketMatch(s) ==
    LET lead == Len(s) - Len(trimStart(s))
        rest == trimStart(s)
    IN  IF rest = <<>> \/ rest[1] \notin Openers THEN 0
        ELSE IF ~\E i \in 2..Len(rest) : rest[i] \in Closers THEN 0
        ELSE LET close == CHOOSE i \in 2..Len(rest) :
                              /\ rest[i] \in Closers
                              /\ \A j \in 2..(i - 1) : rest[j] \notin Closers
                 inner == toLowerCase(SubSeq(rest, 2, close - 1))
                 after == SubSeq(rest, close + 1, Len(rest))
             IN  IF \E w \in BracketWords : includes(inner, w)
                 THEN lead + close + (Len(after) - Len(trimStart(after)))
                 ELSE 0

\* lines 98-101: every such bracket is replaced by one blank
RECURSIVE dropBrackets(_)
dropBrackets(s) ==
    IF s = <<>> THEN <<>>
    ELSE LET m == bracketMatch(s)
         IN  IF m > 0 THEN <<" ">> \o dropBrackets(SubSeq(s, m + 1, Len(s)))
             ELSE <<Head(s)>> \o dropBrackets(Tail(s))

\* /\s+(feat\.?|ft\.?|featuring)\s+.+$/i matches at the head of s
featMatch(s) ==
    /\ s # <<>> /\ s[1] \in Whitespace
    /\ LET rest == toLowerCase(trimStart(s))
       IN  \E w \in FeatMarkers :
              /\ Len(rest) >= Len(w) + 2
              /\ SubSeq(rest, 1, Len(w)) = w
              /\ rest[Len(w) + 1] \in Whitespace

\* line 104: the first inline feat marker and all that follows become a blank
RECURSIVE dropInlineFeat(_)
dropInlineFeat(s) ==
    IF s = <<>> THEN <<>>
    ELSE IF featMatch(s) THEN <<" ">>
    ELSE <<Head(s)>> \o dropInlineFeat(Tail(s))

\* s.replace(/\s{2,}/g, " ")
RECURSIVE collapseRuns(_)
collapseRuns(s) ==
    IF s = <<>> THEN <<>>
    ELSE IF Len(s) >= 2 /\ s[1] \in Whitespace /\ s[2] \in Whitespace
         THEN <<" ">> \o collapseRuns(trimStart(s))
         ELSE <<Head(s)>> \o collapseRuns(Tail(s))

cleanTrackTitle(trackName) ==
    LET t == trim(trackName)
    IN  IF t = <<>> THEN t
        ELSE trim(collapseRuns(dropInlineFeat(dropBrackets(dropDashVersion(t)))))

\* the cleaned title is asked before the exact one
candidates_cleanedFirst(artistName, trackName) ==
    LET cleanedTrack == cleanTrackTitle(trackName)
    IN  (IF cleanedTrack # <<>>
            /\ toLowerCase(cleanedTrack) # toLowerCase(trim(trackName))
         THEN <<[type |-> "track", artist |-> artistName, track |-> cleanedTrack]>>
         ELSE <<>>)
        \o <<[type |-> "track", artist |-> artistName, track |-> trackName]>>
        \o <<[type |-> "artist", artist |-> artistName, track |-> <<>>]>>

\* lines 179-191: the strategies tried for one artist/track pair
candidates(artistName, trackName) ==
    LET cleanedTrack == cleanTrackTitle(trackName)
    IN  <<[type |-> "track", artist |-> artistName, track |-> trackName]>>
        \o (IF cleanedTrack # <<>>
               /\ toLowerCase(cleanedTrack) # toLowerCase(trim(trackName))
            THEN <<[type |-> "track", artist |-> artistName, track |-> cleanedTrack]>>
            ELSE <<>>)
        \o <<[type |-> "artist", artist |-> artistName, track |-> <<>>]>>

-----------------------------------------------------------------------------
(* fetchAllLikedSongs: the artist genres (lines 136-175) and               *)
(* getMultipleArtists (spotify.ts lines 177-238)                           *)

\* song.track.artists.map(artist => artist.id).filter(Boolean)
artistIdsOf(t) ==
    SelectSeq([i \in DOMAIN track(t).artists |-> track(t).artists[i].id],
              LAMBDA id : id # NoId)

\* lines 139-145
allArtistIds(list) == uniqueLabels(flatten([i \in DOMAIN list |-> artistIdsOf(list[i])]))

\* lines 186-189
chunksOf(ids) ==
    LET l == ids
    IN  [k \in 1..((Len(l) + ChunkSize - 1) \div ChunkSize) |->
            SubSeq(l, ChunkSize * (k - 1) + 1, Min(ChunkSize * k, Len(l)))]

chunks       == chunksOf(artistIds)
currentChunk == chunks[chunkIdx + 1]
artistsKey   == spotifyKey("artists", currentChunk, accessToken)

ArtistsProgress(current, total) ==
    LoadingState("fetching_genres", "spotify_artists", Progress(current, total))

\* Object.assign(genreMap, entries): the ids of the answer become keys
assigned(map, answer) ==
    LET m       == map
        artists == answer.artists
    IN  [id \in DOMAIN m \cup {artists[i].id : i \in DOMAIN artists} |->
            IF \E i \in DOMAIN artists : artists[i].id = id
            THEN artists[CHOOSE i \in DOMAIN artists :
                            /\ artists[i].id = id
                            /\ \A j \in DOMAIN artists : artists[j].id = id => j <= i].genres
            ELSE m[id]]

\* the value getMultipleArtists returns to the run; line 172
artistsReturn(map) ==
    /\ genreMap' = map
    /\ artistLog' = Append(artistLog, [returned |-> DOMAIN map])
    /\ loadingState' = LoadingState("processing", Absent, NoProgress)
    /\ pc' = "processing"

\* the top-level call is done with the current chunk: completedChunks += 1,
\* onProgress, then the delay or the next chunk or the return
chunkDone(map, delay) ==
    LET done == completedChunks + 1
        last == chunkIdx + 1 = Len(chunks)
    IN  IF delay /\ Len(chunks) > 1
        THEN /\ genreMap' = map
             /\ completedChunks' = done
             /\ loadingState' = ArtistsProgress(done, Len(chunks))
             /\ artistLog' = Append(artistLog, [current |-> done, total |-> Len(chunks)])
             /\ artistRetry' = FALSE
             /\ pc' = "chunk_delay"
             /\ UNCHANGED chunkIdx
        ELSE IF last
        THEN /\ genreMap' = map
             /\ completedChunks' = done
             /\ artistLog' = artistLog \o <<[current |-> done, total |-> Len(chunks)],
                                           [returned |-> DOMAIN map]>>
             /\ artistRetry' = FALSE
             /\ loadingState' = LoadingState("processing", Absent, NoProgress)
             /\ pc' = "processing"
             /\ UNCHANGED chunkIdx
        ELSE /\ genreMap' = map
             /\ completedChunks' = done
             /\ loadingState' = ArtistsProgress(done, Len(chunks))
             /\ artistLog' = Append(artistLog, [current |-> done, total |-> Len(chunks)])
             /\ artistRetry' = FALSE
             /\ chunkIdx' = chunkIdx + 1
             /\ pc' = "artists_wait"

\* the artist stage starts after every page, whether or not it has a next
PageDelayDone_ignoresNext ==
    /\ pc = "page_delay"
    /\ LET ids == allArtistIds(allSongs)
       IN  /\ artistIds' = ids
           /\ chunkIdx' = 0
           /\ completedChunks' = 0
           /\ artistRetry' = FALSE
           /\ IF ids = <<>>
              THEN artistsReturn(<<>>)
              ELSE /\ loadingState' = ArtistsProgress(0, Len(chunksOf(ids)))
                   /\ genreMap' = <<>>
                   /\ pc' = "artists_wait"
                   /\ UNCHANGED artistLog
    /\ UNCHANGED <<sideVars, mapVars, songs, genreStats, loading, error, pageVars,
                   envVars, fanVars>>

\* the 100 ms after a page end: the next page, or lines 136-170
PageDelayDone ==
    /\ pc = "page_delay"
    /\ IF hasMore
       THEN /\ loadingState' = SongsProgress(Len(allSongs), estimatedTotal)
            /\ pc' = "page_wait"
            /\ UNCHANGED artistVars
       ELSE LET ids == allArtistIds(allSongs)
            IN  /\ artistIds' = ids
                /\ chunkIdx' = 0
                /\ completedChunks' = 0
                /\ artistRetry' = FALSE
                /\ IF ids = <<>>
                   THEN artistsReturn(<<>>)
                   ELSE /\ loadingState' = ArtistsProgress(0, Len(chunksOf(ids)))
                        /\ genreMap' = <<>>
                        /\ pc' = "artists_wait"
                        /\ UNCHANGED artistLog
    /\ UNCHANGED <<sideVars, mapVars, songs, genreStats, loading, error, pageVars,
                   envVars, fanVars>>

artistFrame == <<sideVars, mapVars, songs, genreStats, loading, error, pageVars,
                 accessToken, library, runs, pageLog, lastfmEnabled, fanVars, artistIds>>

\* cachedFetch finds the chunk in the cache
ArtistsFromCache ==
    /\ pc = "artists_wait"
    /\ cacheHas(artistsKey)
    /\ chunkDone(assigned(genreMap, cacheGet(artistsKey)), ~artistRetry)
    /\ UNCHANGED <<artistFrame, cache, faults>>

\* the network answers 200 with the artists of the chunk
ArtistsOk ==
    /\ pc = "artists_wait"
    /\ ~cacheHas(artistsKey)
    /\ cache' = cacheSet(cache, artistsKey, artistsBody(currentChunk))
    /\ chunkDone(assigned(genreMap, artistsBody(currentChunk)), ~artistRetry)
    /\ UNCHANGED <<artistFrame, faults>>

\* 429: sleep, then the chunk is retried by a nested call (lines 202-206)
ArtistsRateLimited ==
    /\ pc = "artists_wait"
    /\ ~cacheHas(artistsKey)
    /\ faults < MaxFaults
    /\ faults' = faults + 1
    /\ pc' = "artists_rl_sleep"
    /\ UNCHANGED <<artistFrame, cache, loadingState, artistVars>>

ArtistsRateSleepDone ==
    /\ pc = "artists_rl_sleep"
    /\ artistRetry' = TRUE
    /\ pc' = "artists_wait"
    /\ UNCHANGED <<artistFrame, cache, faults, loadingState, chunkIdx, genreMap,
                   completedChunks, artistLog>>

\* another status: the chunk is skipped (lines 213-217); in a nested call
\* the retry returns {} for the chunk
ArtistsSkipped ==
    /\ pc = "artists_wait"
    /\ ~cacheHas(artistsKey)
    /\ faults < MaxFaults
    /\ faults' = faults + 1
    /\ chunkDone(genreMap, FALSE)
    /\ UNCHANGED <<artistFrame, cache>>

ArtistThrows == {"network", "not_json"}

\* fetch rejects, or the body of a 200 answer is not JSON (nothing is cached):
\* the catch of the call that made the request returns {} (lines 234-237)
ArtistsThrew(kind) ==
    /\ pc = "artists_wait"
    /\ ~cacheHas(artistsKey)
    /\ faults < MaxFaults
    /\ faults' = faults + 1
    /\ kind \in ArtistThrows
    /\ IF artistRetry
       THEN chunkDone(genreMap, FALSE)
       ELSE artistsReturn(<<>>) /\ UNCHANGED <<chunkIdx, completedChunks, artistRetry>>
    /\ UNCHANGED <<artistFrame, cache>>

\* the 100 ms between chunks end
ChunkDelayDone ==
    /\ pc = "chunk_delay"
    /\ IF chunkIdx + 1 = Len(chunks)
       THEN /\ artistLog' = Append(artistLog, [returned |-> DOMAIN genreMap])
            /\ loadingState' = LoadingState("processing", Absent, NoProgress)
            /\ pc' = "processing"
            /\ UNCHANGED chunkIdx
       ELSE /\ chunkIdx' = chunkIdx + 1
            /\ pc' = "artists_wait"
            /\ UNCHANGED <<artistLog, loadingState>>
    /\ UNCHANGED <<artistFrame, cache, faults, genreMap, completedChunks, artistRetry>>

-----------------------------------------------------------------------------
(* fetchAllLikedSongs: songs, Last.fm fan-out, publication (lines 172-293) *)

\* the tags Last.fm holds
lastfmTopTags(method, artist, title) ==
    IF method = "track.gettoptags" /\ artist = NameA /\ title = Song
        THEN <<hiphopTag, <<"s","e","e","n"," ","l","i","v","e">>, TrapTag, hiphopTag>>
    ELSE IF method = "track.gettoptags" /\ artist = NameC THEN <<Spam100>>
    ELSE IF method = "artist.gettoptags" /\ artist = NameA THEN <<rnbTag>>
    ELSE <<>>

\* lines 178-199
songsWithGenresBase(list, artistGenreMap) ==
    LET l == list
        m == artistGenreMap
    IN  [i \in DOMAIN l |->
            LET artists == track(l[i]).artists
            IN  songWithGenresBase(l[i],
                    flatten([a \in DOMAIN artists |->
                                IF artists[a].id \in DOMAIN m THEN m[artists[a].id] ELSE <<>>]))]

firstArtist(t) ==
    IF track(t).artists = <<>> THEN <<>> ELSE track(t).artists[1].name

\* `${artist}|||${track}`.toLowerCase()
queryKey(artist, title) == toLowerCase(artist \o <<"|","|","|">> \o title)

\* lines 207-221: the first artist/track pair of each key, in song order
uniqueQueries(list) ==
    LET l     == list
        pairs == [i \in DOMAIN l |->
                    [artist |-> firstArtist(l[i]), track |-> track(l[i]).name]]
        keys  == [i \in DOMAIN l |-> queryKey(pairs[i].artist, pairs[i].track)]
    IN  pick(pairs, {i \in DOMAIN l :
                        /\ pairs[i].artist # <<>> /\ pairs[i].track # <<>>
                        /\ \A j \in 1..(i - 1) :
                              ~(/\ pairs[j].artist # <<>> /\ pairs[j].track # <<>>
                                /\ keys[j] = keys[i])})

queryList == uniqueQueries(allSongs)

LastfmProgress(current, total) ==
    LoadingState("fetching_genres", "lastfm", Progress(current, total))

\* lines 251-266
songsWithGenresFinal(base, results) ==
    LET b      == base
        res    == results
        tagKey == [r \in DOMAIN res |-> queryKey(res[r].artist, res[r].track)]
    IN  [i \in DOMAIN b |->
            LET key  == queryKey(firstArtist(b[i].track), track(b[i].track).name)
                hits == {r \in DOMAIN res : tagKey[r] = key}
                tags == IF hits = {} THEN <<>>
                        ELSE res[CHOOSE r \in hits : \A o \in hits : o <= r].tags
            IN  songWithLastfm(b[i], tags)]

\* lines 270-293 and the finally
publish(final) ==
    /\ songs' = final
    /\ genreStats' =
          [totalSongs |-> Len(final),
           songsWithSpotifyGenres |->
               Cardinality({i \in DOMAIN final : final[i].spotifyGenres # <<>>}),
           songsWithLastfmGenres |->
               Cardinality({i \in DOMAIN final : final[i].lastfmGenres # <<>>}),
           songsWithNoGenres |->
               Cardinality({i \in DOMAIN final : /\ final[i].spotifyGenres = <<>>
                                                  /\ final[i].lastfmGenres = <<>>}),
           lastfmEnabled |-> lastfmEnabled]
    /\ loadingState' = LoadingState("complete", Absent, NoProgress)
    /\ loading' = FALSE
    /\ pc' = "ended"
    /\ UNCHANGED error

\* getLastfmTrackTags begins for the item a worker took: the first strategy
\* is requested
startLookup(q) ==
    [cands |-> candidates(q.artist, q.track), cand |-> 1, at |-> "fetch", tags |-> <<>>,
     tried |-> <<>>]

\* lines 172-249, up to the await of mapWithConcurrency
ProcessSongs ==
    /\ pc = "processing"
    /\ LET queries == IF lastfmEnabled THEN queryList ELSE <<>>
       IN  IF queries # <<>>
           THEN /\ mapStart(queries, LastfmConcurrency)
                /\ completed' = 0
                /\ lkp' = [idx \in 0..(Min(workerCount(LastfmConcurrency), Len(queries)) - 1) |->
                              startLookup(queries[idx + 1])]
                /\ loadingState' = LastfmProgress(0, Len(queries))
                /\ pc' = "lastfm_wait"
                /\ UNCHANGED <<songs, genreStats, loading, error>>
           ELSE /\ publish(songsWithGenresBase(allSongs, genreMap))
                /\ UNCHANGED <<mapVars, fanVars>>
    /\ UNCHANGED <<sideVars, pageVars, envVars, artistVars>>

candidateOf(idx) == lkp[idx].cands[lkp[idx].cand]
methodOf(c)      == IF c.type = "track" THEN "track.gettoptags" ELSE "artist.gettoptags"
lookupKey(idx)   == lastfmKey(methodOf(candidateOf(idx)), candidateOf(idx).artist,
                              candidateOf(idx).track)

\* fetchLastfm*TopTags on the data cachedJsonFetch returned
tagsOfData(data) ==
    IF data.kind = "json" THEN cleanTagNames(data.names) ELSE <<>>

without(f, idx) == [i \in DOMAIN f \ {idx} |-> f[i]]

\* lines 194-216 and 238-246 once a strategy has its tags: the next strategy,
\* or the de-duplicated tags, completed += 1, the progress and the 50 ms sleep
lookupGot(idx, tags) ==
    LET l == lkp[idx]
        t == Append(l.tried, [cand |-> l.cand, got |-> tags])
    IN  IF tags = <<>> /\ l.cand < Len(l.cands)
        THEN /\ lkp' = [lkp EXCEPT ![idx].cand = l.cand + 1, ![idx].tried = t]
             /\ UNCHANGED <<completed, loadingState>>
        ELSE /\ lkp' = [lkp EXCEPT ![idx].at = "delay", ![idx].tried = t,
                                   ![idx].tags = dedupeLimit(tags, <<>>, TagLimit)]
             /\ completed' = completed + 1
             /\ loadingState' = LastfmProgress(completed + 1, Len(mItems))

lookupFrame == <<sideVars, songs, genreStats, loading, error, pc, pageVars,
                 accessToken, library, runs, pageLog, lastfmEnabled, artistVars, mapVars>>

\* cachedJsonFetch finds the answer in the cache
LookupFromCache(idx) ==
    /\ idx \in DOMAIN lkp /\ lkp[idx].at = "fetch"
    /\ cacheHas(lookupKey(idx))
    /\ lookupGot(idx, tagsOfData(cacheGet(lookupKey(idx))))
    /\ UNCHANGED <<lookupFrame, cache, faults>>

\* the network answers 200 with the top tags; the body is cached
LookupOk(idx) ==
    /\ idx \in DOMAIN lkp /\ lkp[idx].at = "fetch"
    /\ ~cacheHas(lookupKey(idx))
    /\ LET c    == candidateOf(idx)
           data == [kind |-> "json", names |-> lastfmTopTags(methodOf(c), c.artist, c.track)]
       IN  /\ cache' = cacheSet(cache, lookupKey(idx), data)
           /\ lookupGot(idx, tagsOfData(data))
    /\ UNCHANGED <<lookupFrame, faults>>

\* 429: sleep, then cachedJsonFetch calls itself (lines 27-31)
LookupRateLimited(idx) ==
    /\ idx \in DOMAIN lkp /\ lkp[idx].at = "fetch"
    /\ ~cacheHas(lookupKey(idx))
    /\ faults < MaxFaults
    /\ faults' = faults + 1
    /\ lkp' = [lkp EXCEPT ![idx].at = "rl_sleep"]
    /\ UNCHANGED <<lookupFrame, cache, completed, loadingState>>

LookupRateSleepDone(idx) ==
    /\ idx \in DOMAIN lkp /\ lkp[idx].at = "rl_sleep"
    /\ lkp' = [lkp EXCEPT ![idx].at = "fetch"]
    /\ UNCHANGED <<lookupFrame, cache, faults, completed, loadingState>>

LookupBadAnswers == {"error_object", "not_json"}

\* a non-2xx answer whose body is an error object, or is not JSON (data is
\* null): nothing is cached and the strategy yields no tag
LookupBadAnswer(idx, kind) ==
    /\ idx \in DOMAIN lkp /\ lkp[idx].at = "fetch"
    /\ ~cacheHas(lookupKey(idx))
    /\ kind \in LookupBadAnswers
    /\ faults < MaxFaults
    /\ faults' = faults + 1
    /\ lookupGot(idx, tagsOfData([kind |-> kind, names |-> <<>>]))
    /\ UNCHANGED <<lookupFrame, cache>>

\* fetch(url) rejects (line 24, outside any try): getLastfmTrackTags, fn and
\* the worker reject, Promise.all rejects and the run goes to its catch
LookupRejected(idx) ==
    /\ idx \in DOMAIN lkp /\ lkp[idx].at = "fetch"
    /\ ~cacheHas(lookupKey(idx))
    /\ faults < MaxFaults
    /\ faults' = faults + 1
    /\ mapReject(idx)
    /\ lkp' = without(lkp, idx)
    /\ IF mState = "running"
       THEN failRun("Failed to fetch")
       ELSE UNCHANGED <<error, loadingState, loading, pc>>
    /\ UNCHANGED <<sideVars, songs, genreStats, pageVars, accessToken, library, cache,
                   runs, pageLog, lastfmEnabled, artistVars, completed>>

\* the 50 ms sleep of fn ends: fn returns, the worker stores the value and
\* takes the next item; when the last worker returns the run resumes and
\* publishes (lines 251-293)
LookupDelayDone(idx) ==
    /\ idx \in DOMAIN lkp /\ lkp[idx].at = "delay"
    /\ mapResume(idx, [artist |-> mItems[idx + 1].artist, track |-> mItems[idx + 1].track,
                       tags |-> lkp[idx].tags])
    /\ lkp' = IF nextIndex < Len(mItems)
              THEN [i \in (DOMAIN lkp \ {idx}) \cup {nextIndex} |->
                       IF i = nextIndex THEN startLookup(mItems[nextIndex + 1]) ELSE lkp[i]]
              ELSE without(lkp, idx)
    /\ IF mState' = "resolved" /\ pc = "lastfm_wait"
       THEN publish(songsWithGenresFinal(songsWithGenresBase(allSongs, genreMap), mResults'))
       ELSE UNCHANGED hookVars /\ UNCHANGED pc
    /\ UNCHANGED <<sideVars, pageVars, envVars, artistVars, completed>>

-----------------------------------------------------------------------------
(* Spec: runs of fetchAllLikedSongs, one after the other                   *)

Init ==
    /\ showAnalysis = FALSE
    /\ RunAtRest
    /\ library \in Libraries
    /\ lastfmEnabled \in BOOLEAN
    /\ songs = <<>>
    /\ selectedGenre = <<>>
    /\ genreSource = "both"
    /\ MapIdle
    /\ TextIdle

\* the steps of a run that was started
RunSteps ==
    \/ CacheCleared
    \/ PageFromCache
    \/ PageOk
    \/ PageRateLimited
    \/ \E kind \in PageFailures : PageFailed(kind)
    \/ RateSleepDone
    \/ PageDelayDone
    \/ ArtistsFromCache
    \/ ArtistsOk
    \/ ArtistsRateLimited
    \/ ArtistsRateSleepDone
    \/ ArtistsSkipped
    \/ \E kind \in ArtistThrows : ArtistsThrew(kind)
    \/ ChunkDelayDone
    \/ ProcessSongs
    \/ \E idx \in DOMAIN lkp : LookupFromCache(idx)
    \/ \E idx \in DOMAIN lkp : LookupOk(idx)
    \/ \E idx \in DOMAIN lkp : LookupRateLimited(idx)
    \/ \E idx \in DOMAIN lkp : LookupRateSleepDone(idx)
    \/ \E idx \in DOMAIN lkp : \E kind \in LookupBadAnswers : LookupBadAnswer(idx, kind)
    \/ \E idx \in DOMAIN lkp : LookupRejected(idx)
    \/ \E idx \in DOMAIN lkp : LookupDelayDone(idx)

Next ==
    \/ StartAnalysis
    \/ RefreshData
    \/ RunSteps

Spec == Init /\ [][Next]_vars

\* the same runs over a store that may stop working before any of them
NextFaulty ==
    \/ Next
    \/ StorageFails
    \/ CacheClearFailed

SpecFaulty == Init /\ [][NextFaulty]_vars

-----------------------------------------------------------------------------
(* Claims about a run                                                      *)

PagingDone    == pc \in {"artists_wait", "artists_rl_sleep", "chunk_delay",
                         "processing", "lastfm_wait"}
RunCompleted  == pc = "ended" /\ runs > 0 /\ error = Null
ArtistsReturned == \E i \in DOMAIN artistLog : "returned" \in DOMAIN artistLog[i]

\* C1: the collection built by the pagination loop is, at every moment, the
\* items of the pages 0, 50, 100, ... received so far, each once and in offset
\* order; the first request is at offset 0, the request after a 429 is made
\* at the same offset and the one after a successful page 50 further; once
\* the loop has ended the collection is the whole liked library.
C1_PaginationExact ==
    /\ allSongs = SubSeq(library, 1, Min(offset, Len(library)))
    /\ pageLog # <<>> => pageLog[1].offset = 0
    /\ \A i \in 1..(Len(pageLog) - 1) :
          /\ pageLog[i].outcome \in {"ok", "429"}
          /\ pageLog[i + 1].offset = IF pageLog[i].outcome = "ok"
                                     THEN pageLog[i].offset + 50
                                     ELSE pageLog[i].offset
    /\ pc \in {"page_wait", "rate_sleep"} /\ pageLog # <<>> =>
          offset = pageLog[Len(pageLog)].offset
                      + (IF pageLog[Len(pageLog)].outcome = "ok" THEN 50 ELSE 0)
    /\ (PagingDone \/ RunCompleted) => allSongs = library

\* a run over two pages completed although the second page was first
\* answered with 429
C1_Witness ==
    /\ RunCompleted
    /\ Len(library) > 50
    /\ allSongs = library
    /\ \E i \in DOMAIN pageLog : pageLog[i].outcome = "429" /\ pageLog[i].offset = 50

\* C2: when getMultipleArtists returns to the run, every id it was given is
\* a key of the returned map.
C2_EveryIdIsKey ==
    pc = "processing" /\ artistIds # <<>> => Range(artistIds) \subseteq DOMAIN genreMap

\* C5: a run that reached the Last.fm stage ends complete, without error and
\* with every song published, whatever failed in a lookup.
C5_LookupFailureNeverAborts ==
    pc = "ended" /\ ArtistsReturned =>
        /\ error = Null
        /\ loadingState.phase = "complete"
        /\ Len(songs) = Len(library)

-----------------------------------------------------------------------------
(* SpecLabel: toGenreSearchKey and isSpamGenreLabel applied to a label     *)

LabelChars  == {"1", "-", "s", " ", "&", "R", "b"}
MaxLabelLen == 4

lRnB     == <<"R","&","B">>
lRandB   == <<"R"," ","a","n","d"," ","B">>
lRnb     == <<"r","n","b">>
lRPlusB  == <<" ","r"," ","+","b","!"," ">>
lNested  == <<"r","a","r","a","n","d","b","n","d","b">>
lPop     == <<"P","o","p">>
lLoFi    == <<"l","o","-","f","i">>
l100     == <<"1","0","0">>
lNeg100  == <<"-","1","0","0">>
l3s      == <<"3","s">>
l3S      == <<" ","3","S"," ">>
l3to5    == <<"3","-","5">>
l3sp5    == <<"3"," ","-"," "," ","5">>
l123     == <<"1","-","2","-","3">>
lNeg35   == <<"-","3","-","5">>
l90s     == <<"9","0","s"," ","r","o","c","k">>

AliasLabels == {lRnB, lRandB, lRnb}
SpamLabels  == {l100, lNeg100, l3s, l3to5, l123}
GoodLabels  == {lPop, lLoFi}
SeedLabels  == AliasLabels \cup SpamLabels \cup GoodLabels
                  \cup {<<>>, lRPlusB, lNested, l3S, l3sp5, lNeg35, l90s}

InitLabel ==
    /\ showAnalysis = FALSE
    /\ RunAtRest
    /\ MapIdle
    /\ library = <<>>
    /\ lastfmEnabled = TRUE
    /\ songs = <<>>
    /\ selectedGenre = <<>>
    /\ genreSource = "both"
    /\ labelIn \in SeedLabels
    /\ tagsIn = <<>>
    /\ probe = NoProbe
    /\ retry = NoRetry
    /\ upstream = <<>>

\* one more character of the label
LabelChar(c) ==
    /\ Len(labelIn) < MaxLabelLen
    /\ labelIn' = Append(labelIn, c)
    /\ probe' = NoProbe
    /\ UNCHANGED <<tagsIn, retry, upstream, uiVars, runVars, mapVars, storeVars>>

\* toGenreSearchKey(labelIn), and toGenreSearchKey of what it returned
ApplyKey ==
    /\ probe' = [fn    |-> "toGenreSearchKey",
                 out   |-> toGenreSearchKey(labelIn),
                 again |-> toGenreSearchKey(toGenreSearchKey(labelIn))]
    /\ UNCHANGED <<labelIn, tagsIn, retry, upstream, uiVars, runVars, mapVars, storeVars>>

\* isSpamGenreLabel(labelIn)
ApplySpam ==
    /\ probe' = [fn |-> "isSpamGenreLabel", out |-> isSpamGenreLabel(labelIn)]
    /\ UNCHANGED <<labelIn, tagsIn, retry, upstream, uiVars, runVars, mapVars, storeVars>>

NextLabel ==
    \/ \E c \in LabelChars : LabelChar(c)
    \/ ApplyKey
    \/ ApplySpam

SpecLabel == InitLabel /\ [][NextLabel]_vars

Keyed   == probe.fn = "toGenreSearchKey"
Spammed == probe.fn = "isSpamGenreLabel"

KeyAlphabet == Range(LowerChars) \cup Digits

\* C11: the key of a key is that key; the key holds only a-z and 0-9; the
\* labels "R&B", "R and B" and "rnb" have one and the same key.
C11_KeyIdempotentAliasesMerge ==
    Keyed =>
        /\ probe.again = probe.out
        /\ Range(probe.out) \subseteq KeyAlphabet
        /\ labelIn \in AliasLabels => probe.out = toGenreSearchKey(lRnb)
        /\ labelIn = lRnb => probe.out = labelIn

\* the key of "R&B" was taken, and it is not the label itself
C11_Witness ==
    /\ Keyed
    /\ labelIn = lRnB
    /\ probe.out # <<>>
    /\ probe.out # toLowerCase(labelIn)

\* a numeral: one or more digits
IsNumeral(s) == s # <<>> /\ \A i \in DOMAIN s : s[i] \in Digits

\* the text without its leading minus sign, if it has one
Unsigned(t) == IF t # <<>> /\ t[1] = "-" THEN Tail(t) ELSE t

\* N-M: two numerals around one dash, blanks allowed next to the dash
IsRange(t) ==
    \E i, j \in DOMAIN t :
        /\ i < j
        /\ IsNumeral(SubSeq(t, 1, i))
        /\ IsNumeral(SubSeq(t, j, Len(t)))
        /\ \A k \in (i + 1)..(j - 1) : t[k] \in Whitespace \cup {"-"}
        /\ Cardinality({k \in (i + 1)..(j - 1) : t[k] = "-"}) = 1

\* N-M-...: numerals joined by single dashes, the first optionally signed
IsSegments(t) ==
    LET u == Unsigned(t)
    IN  /\ u # <<>>
        /\ \A k \in DOMAIN u : u[k] \in Digits \cup {"-"}
        /\ u[1] \in Digits /\ u[Len(u)] \in Digits
        /\ \A k \in 1..(Len(u) - 1) : ~(u[k] = "-" /\ u[k + 1] = "-")
        /\ \E k \in DOMAIN u : u[k] = "-"

NumericShape(l) ==
    LET t == toLowerCase(trim(l))
    IN  \/ t = <<>>
        \/ IsNumeral(Unsigned(t))
        \/ t[Len(t)] = "s" /\ IsNumeral(Unsigned(SubSeq(t, 1, Len(t) - 1)))
        \/ IsRange(t)
        \/ IsSegments(t)

\* C20: isSpamGenreLabel is true exactly for the labels that, trimmed and
\* lower-cased, are empty, an optionally signed integer, such an integer
\* followed by 's', a range N-M (blanks allowed around the dash) or a
\* multi-segment range N-M-...; it is true of "100", "-100", "3s", "3-5" and
\* "1-2-3" and false of "Pop" and "lo-fi".
C20_SpamExactlyNumeric ==
    Spammed =>
        /\ probe.out <=> NumericShape(labelIn)
        /\ labelIn \in SpamLabels => probe.out
        /\ labelIn \in GoodLabels => ~probe.out

\* "1-2-3" was judged, and found spam
C20_Witness == Spammed /\ labelIn = l123 /\ probe.out

-----------------------------------------------------------------------------
(* parseGenreQuery, on the text of the filter box (SpecFilter)            *)

\* text[a..b] is a term: a maximal stretch without comma or pipe
IsTermAt(text, a, b) ==
    /\ a <= b
    /\ \A k \in a..b : text[k] \notin {",", "|"}
    /\ a = 1 \/ text[a - 1] \in {",", "|"}
    /\ b = Len(text) \/ text[b + 1] \in {",", "|"}

TermsOf(text) ==
    {ab \in (DOMAIN text) \X (DOMAIN text) : IsTermAt(text, ab[1], ab[2])}

TermText(text, ab) == trim(SubSeq(text, ab[1], ab[2]))

IsExcluding(text, ab) ==
    TermText(text, ab) # <<>> /\ TermText(text, ab)[1] \in {"-", "!"}

\* the key of the term, its prefix stripped when it excludes
TermKeyAt(text, ab) ==
    toGenreSearchKey(IF IsExcluding(text, ab) THEN Tail(TermText(text, ab))
                                             ELSE TermText(text, ab))

\* where the key is first seen among the terms of one kind
FirstSeen(text, key, excluding) ==
    LET at == {ab[1] : ab \in {t \in TermsOf(text) :
                                  /\ IsExcluding(text, t) = excluding
                                  /\ TermKeyAt(text, t) = key}}
    IN  CHOOSE a \in at : \A o \in at : a <= o

\* list holds the non-empty keys of the terms of one kind, each once, in
\* first-seen order
ListsKeys(text, list, excluding) ==
    /\ Range(list) = {TermKeyAt(text, t) : t \in {u \in TermsOf(text) :
                                                    IsExcluding(text, u) = excluding}}
                        \ {<<>>}
    /\ \A i, j \in DOMAIN list : i < j =>
          /\ list[i] # list[j]
          /\ FirstSeen(text, list[i], excluding) < FirstSeen(text, list[j], excluding)
    /\ \A i \in DOMAIN list : list[i] # <<>> /\ Range(list[i]) \subseteq KeyAlphabet

\* C12: the text is split on commas and pipes; the terms that start with '-'
\* or '!' give, prefix stripped, the exclude keys and all other terms the
\* include keys; each list holds non-empty search keys, each once, in
\* first-seen order; "rnb, -pop, !live" gives include = [rnb] and
\* exclude = [pop, live].
C12_QueryParsed ==
    /\ ListsKeys(selectedGenre, shownQuery.include, FALSE)
    /\ ListsKeys(selectedGenre, shownQuery.exclude, TRUE)
    /\ selectedGenre = qExample =>
          shownQuery = [include |-> <<rnbTag>>,
                        exclude |-> << <<"p","o","p">>, <<"l","i","v","e">> >>]

\* a typed text with an include term and an exclude term
C12_Witness ==
    /\ selectedGenre \notin SeedTexts
    /\ Len(shownQuery.include) = 1
    /\ Len(shownQuery.exclude) = 1

-----------------------------------------------------------------------------
(* SpecTags: the tag list getLastfmTrackTags returns for an upstream answer *)

tRock     == <<"r","o","c","k">>
tRockCap  == <<" ","R","o","c","k">>
tPop      == <<"p","o","p">>
tSeenLive == <<"S","e","e","n"," ","l","i","v","e">>
t2010s    == <<"2","0","1","0","s">>

TagNames    == {tRock, tRockCap, tPop, tSeenLive, t2010s, <<>>}
MaxTags     == 3
MaxTagLimit == 3
NoOptions   == <<>>
TagOptions  == {[limit |-> n] : n \in 0..MaxTagLimit} \cup {NoOptions}

InitTags ==
    /\ showAnalysis = FALSE
    /\ RunAtRest
    /\ MapIdle
    /\ library = <<>>
    /\ lastfmEnabled = TRUE
    /\ songs = <<>>
    /\ selectedGenre = <<>>
    /\ genreSource = "both"
    /\ TextIdle

\* one more tag in the answer of the strategy that is asked
TagName(n) ==
    /\ Len(tagsIn) < MaxTags
    /\ tagsIn' = Append(tagsIn, n)
    /\ probe' = NoProbe
    /\ UNCHANGED <<labelIn, retry, upstream, uiVars, runVars, mapVars, storeVars>>

\* getLastfmTrackTags(artist, track, { limit }) when the exact title answers
\* with tagsIn
ApplyTags(options) ==
    /\ probe' = [fn |-> "getLastfmTrackTags", limit |-> limitOf(options),
                 out |-> trackTags(<<tagsIn>>, options)]
    /\ UNCHANGED <<labelIn, tagsIn, retry, upstream, uiVars, runVars, mapVars, storeVars>>

NextTags ==
    \/ \E n \in TagNames : TagName(n)
    \/ \E options \in TagOptions : ApplyTags(options)

SpecTags == InitTags /\ [][NextTags]_vars

Tagged == probe.fn = "getLastfmTrackTags"

\* the tags of the answer: trimmed, lower-cased, neither empty nor junk, each once
CleanTagsOf(answer) ==
    LET norm == [i \in DOMAIN answer |-> toLowerCase(trim(answer[i]))]
    IN  pick(norm, {i \in DOMAIN norm :
                       /\ norm[i] # <<>>
                       /\ ~isJunkTag(norm[i])
                       /\ \A j \in 1..(i - 1) : norm[j] # norm[i]})

\* C19: the returned list has no duplicate and no junk tag, never more than
\* limit tags, and is the first limit entries of the de-duplicated tags of
\* the answer, for every limit >= 0.
C19_TagsCappedAtLimit ==
    Tagged =>
        /\ \A i, j \in DOMAIN probe.out : i < j => probe.out[i] # probe.out[j]
        /\ \A i \in DOMAIN probe.out : ~isJunkTag(probe.out[i])
        /\ Len(probe.out) <= probe.limit
        /\ probe.out = SubSeq(CleanTagsOf(tagsIn), 1,
                              Min(probe.limit, Len(CleanTagsOf(tagsIn))))

\* the last answer the pagination loop of the current run received was a
\* failure other than 429
PageFailedLast ==
    /\ pageLog # <<>>
    /\ pageLog[Len(pageLog)].outcome \in PageFailures
    /\ pc # "clearing"

\* C16: once a page request has failed with anything but 429, the run has
\* ended with a non-empty error message, loading = false and phase idle, and
\* nothing more is requested (no page, artist batch or Last.fm lookup) until
\* another run is started.
C16_PageFailureIsFatal ==
    /\ [](PageFailedLast =>
             /\ pc = "ended"
             /\ error \notin {Null, ""}
             /\ loading = FALSE
             /\ loadingState.phase = "idle"
             /\ artistLog = <<>>
             /\ lkp = <<>>)
    /\ [][PageFailedLast =>
             \/ runs' = runs + 1
             \/ UNCHANGED <<pc, pageLog, artistLog, lkp, cache, faults, mapVars>>]_vars

\* the second page of a library of 51 failed after the first was received
C16_Witness ==
    /\ PageFailedLast
    /\ Len(pageLog) = 2
    /\ pageLog[1].outcome = "ok"
    /\ Len(allSongs) = 50
    /\ error = "Failed to fetch liked songs"

Strategy(type, artist, title) == [type |-> type, artist |-> artist, track |-> title]

\* the strategies of the lookup are the exact title, then the cleaned title
\* where it differs, then the artist
StrategiesInOrder(q, cands) ==
    LET exact   == Strategy("track", q.artist, q.track)
        cleaned == Strategy("track", q.artist, cleanTrackTitle(q.track))
        artist  == Strategy("artist", q.artist, <<>>)
    IN  \/ cands = <<exact, artist>>
        \/ cands = <<exact, cleaned, artist>> /\ cleaned # exact

\* C18: a lookup asks its strategies in the order exact title, cleaned
\* title, artist, never more than three; a strategy is asked only after every
\* earlier one yielded no tag, and the tags returned are those of the first
\* strategy that yielded one (none if none did).
C18_StrategiesInOrder ==
    \A idx \in DOMAIN lkp :
        LET l == lkp[idx]
            n == Len(l.tried)
        IN  /\ StrategiesInOrder(mItems[idx + 1], l.cands)
            /\ n <= 3 /\ n <= Len(l.cands)
            /\ \A k \in 1..n : l.tried[k].cand = k
            /\ \A k \in 1..(n - 1) : l.tried[k].got = <<>>
            /\ l.at # "delay" => l.cand = n + 1 /\ (n > 0 => l.tried[n].got = <<>>)
            /\ l.at = "delay" =>
                  /\ n > 0 /\ l.cand = n
                  /\ l.tried[n].got = <<>> => n = Len(l.cands) /\ l.tags = <<>>
                  /\ l.tried[n].got # <<>> =>
                        /\ l.tags # <<>>
                        /\ Range(l.tags) \subseteq Range(l.tried[n].got)

\* a lookup that went through all three strategies and got its tags from
\* the artist
C18_Witness ==
    \E idx \in DOMAIN lkp :
        /\ lkp[idx].at = "delay"
        /\ Len(lkp[idx].tried) = 3
        /\ lkp[idx].tags # <<>>

-----------------------------------------------------------------------------
(* SpecCache: cachedFetch (spotify.ts) and cachedJsonFetch (lastfm.ts),    *)
(* call by call, while the clock runs and users log in and out             *)

Tokens     == {TokenA, TokenB}
Revs       == {1, 2}     \* the upstream data changes over time
TickHours  == 12
MaxClock   == 36
MaxFetches == 3

Body(kind, owner, rev) == [kind |-> kind, owner |-> owner, rev |-> rev]
Answer(status, body, etag) == [status |-> status, body |-> body, headers |-> [etag |-> etag]]

Rejected == Answer(0, Body("none", Absent, 0), 0)

\* what the Spotify Web API answers to a request bearing a token: the data
\* of the user the token belongs to, 429, another error, or no answer
spotifyAnswers(token) ==
    {Answer(200, Body("data", token, r), r) : r \in Revs}
        \cup {Answer(429, Body("rate_limited", Absent, 0), 0),
              Answer(500, Body("error", Absent, 0), 0),
              Rejected}

\* what Last.fm answers: tags, a 200 that is not JSON (data is null), 429,
\* an error object, or no answer
lastfmAnswers ==
    {Answer(200, Body("data", Absent, r), r) : r \in Revs}
        \cup {Answer(200, Body("null", Absent, 0), 0),
              Answer(429, Body("rate_limited", Absent, 0), 0),
              Answer(500, Body("error", Absent, 0), 0),
              Rejected}

\* every answer is stored
isOk_always(status) == TRUE

\* response.ok
isOk(status) == status \in 200..299

\* the headers of the entry are not restored
mockResponse_noHeaders(entry) ==
    [status |-> 200, body |-> entry.response, headers |-> [etag |-> 0]]

\* spotify.ts lines 96-100: the Response built from a cache entry
mockResponse(entry) ==
    [status |-> 200, body |-> entry.response, headers |-> entry.headers]

observed(key, source, response) ==
    [seq |-> lastFetch.seq + 1, key |-> key, token |-> accessToken, at |-> now,
     source |-> source, response |-> response]

cacheFrame == <<uiVars, textVars, mapVars, hookVars, pc, pageVars, library, runs,
                faults, pageLog, lastfmEnabled, artistVars, fanVars>>

\* lines 106-126 of spotify.ts and 23-47 of lastfm.ts: the request, and the
\* write of a successful answer
fetchAndStore(key, answer) ==
    /\ lastFetch' = observed(key,
                        IF answer = Rejected THEN "rejected"
                        ELSE IF key.api = "lastfm" /\ answer.status = 429 THEN "retry"
                        ELSE "network",
                        answer)
    /\ cache' = IF isOk(answer.status)
                THEN cachePut(cache, key, answer.body, answer.headers)
                ELSE cache

\* the cache is not consulted: every call goes to the network
CachedFetch_noLookup(api) ==
    /\ accessToken # Null
    /\ lastFetch.seq < MaxFetches
    /\ LET key == spotifyKey(api, <<>>, accessToken)
       IN  \E answer \in spotifyAnswers(accessToken) : fetchAndStore(key, answer)
    /\ UNCHANGED <<cacheFrame, accessToken, now, storage>>

\* cachedFetch(url, { headers: { Authorization: `Bearer ${accessToken}` } })
CachedFetch(api) ==
    /\ accessToken # Null
    /\ lastFetch.seq < MaxFetches
    /\ LET key == spotifyKey(api, <<>>, accessToken)
       IN  IF cacheHas(key)
           THEN /\ lastFetch' = observed(key, "cache", mockResponse(cacheEntry(key)))
                /\ UNCHANGED cache
           ELSE \E answer \in spotifyAnswers(accessToken) : fetchAndStore(key, answer)
    /\ UNCHANGED <<cacheFrame, accessToken, now, storage>>

\* cachedJsonFetch(url); on 429 it sleeps and calls itself
CachedJsonFetch(method) ==
    /\ lastFetch.seq < MaxFetches
    /\ LET key == lastfmKey(method, NameA, Song)
       IN  IF cacheHas(key)
           THEN /\ lastFetch' = observed(key, "cache", mockResponse(cacheEntry(key)))
                /\ UNCHANGED cache
           ELSE \E answer \in lastfmAnswers : fetchAndStore(key, answer)
    /\ UNCHANGED <<cacheFrame, accessToken, now, storage>>

\* time passes
Tick ==
    /\ now < MaxClock
    /\ now' = now + TickHours
    /\ UNCHANGED <<cacheFrame, accessToken, cache, storage, lastFetch>>

\* App: the token exchange succeeded, setAccessToken(token)
Login(token) ==
    /\ accessToken = Null
    /\ accessToken' = token
    /\ UNCHANGED <<cacheFrame, cache, now, storage, lastFetch>>

\* App.handleLogout
Logout ==
    /\ accessToken # Null
    /\ accessToken' = Null
    /\ UNCHANGED <<cacheFrame, cache, now, storage, lastFetch>>

\* useSpotify.clearCache
ClearCache ==
    /\ storage = "ok"
    /\ cache # {}
    /\ cache' = {}
    /\ UNCHANGED <<cacheFrame, accessToken, now, storage, lastFetch>>

InitCache ==
    /\ showAnalysis = FALSE
    /\ RunAtRest
    /\ MapIdle
    /\ TextIdle
    /\ library = <<>>
    /\ lastfmEnabled = TRUE
    /\ songs = <<>>
    /\ selectedGenre = <<>>
    /\ genreSource = "both"

NextCache ==
    \/ \E api \in {"tracks", "me"} : CachedFetch(api)
    \/ CachedJsonFetch("artist.gettoptags")
    \/ Tick
    \/ \E token \in Tokens : Login(token)
    \/ Logout
    \/ ClearCache

SpecCache == InitCache /\ [][NextCache]_vars

Fetched == lastFetch.seq > 0

\* the records of the store under a key, and those written less than 24 hours ago
Records(store, key) == {e \in store : e.key = key}
Recent(store, key, t) == {e \in Records(store, key) : t - e.storedAt < 24}

C15_NoSharingThroughCache ==
    Fetched /\ lastFetch.source = "cache" /\ lastFetch.key.api # "lastfm" =>
        /\ lastFetch.token # Null
        /\ lastFetch.response.body.owner = lastFetch.token

\* the second user's request went to the network although the first user's
\* answer to the same request is in the store and not expired
C15_Witness ==
    /\ Fetched
    /\ lastFetch.token = TokenB
    /\ lastFetch.source = "network"
    /\ \E e \in cache :
          /\ e.key.api = lastFetch.key.api
          /\ e.key.token = TokenA
          /\ e.response.owner = TokenA
          /\ lastFetch.at - e.storedAt < 24

\* C17: every record of the store is the body of a 2xx answer, a record is
\* written only by a call whose request was answered 2xx, and a call served
\* from the cache gets status 200 and never the body of a 429 or of a failure.
C17_OnlySuccessCached ==
    /\ [](/\ \A e \in cache : e.response.kind \in {"data", "null"}
          /\ Fetched /\ lastFetch.source = "cache" =>
                /\ lastFetch.response.status = 200
                /\ lastFetch.response.body.kind \in {"data", "null"})
    /\ [][\A e \in cache' \ cache :
             /\ lastFetch'.seq = lastFetch.seq + 1
             /\ e.key = lastFetch'.key
             /\ lastFetch'.source = "network"
             /\ lastFetch'.response.status \in 200..299]_vars

\* a request was answered 429 and nothing is in the store under its key
C17_Witness ==
    /\ Fetched
    /\ lastFetch.response.status = 429
    /\ Records(cache, lastFetch.key) = {}
    /\ cache # {}

-----------------------------------------------------------------------------
(* Claim about runs over a failing store (SpecFaulty)                      *)

\* C14: no failure of the store aborts a run: a failing read is a miss, a
\* failing write writes nothing, and no run ends with the failure of
\* cache.clear() unhandled before its first request.
C14_CacheFailureNeverAborts == pc # "rejected"

-----------------------------------------------------------------------------
(* Claims about the published songs (Spec)                                 *)

LabelsOf(list) == {list[i] : i \in DOMAIN list}

\* C21: of every published song, no label of spotifyGenres, lastfmGenres or
\* genres is a spam label, the labels of genres are exactly those of
\* spotifyGenres together with those of lastfmGenres, and with Last.fm
\* disabled lastfmGenres is empty and genres is spotifyGenres.
C21_LabelsFilteredAndAttributable ==
    \A i \in DOMAIN songs :
        LET s == songs[i]
        IN  /\ \A l \in LabelsOf(s.spotifyGenres) \cup LabelsOf(s.lastfmGenres)
                        \cup LabelsOf(s.genres) : ~isSpamGenreLabel(l)
            /\ LabelsOf(s.genres) = LabelsOf(s.spotifyGenres) \cup LabelsOf(s.lastfmGenres)
            /\ ~lastfmEnabled => s.lastfmGenres = <<>> /\ s.genres = s.spotifyGenres

\* the first track, one of whose artists carries a numeric label on Spotify,
\* is published with labels of both sources, some of them from Last.fm only
C21_Witness ==
    /\ lastfmEnabled
    /\ \E i \in DOMAIN songs :
          /\ songs[i].track = 1
          /\ Spam100 \in LabelsOf(artistGenresOf(2))
          /\ songs[i].spotifyGenres # <<>>
          /\ LabelsOf(songs[i].lastfmGenres) \ LabelsOf(songs[i].spotifyGenres) # {}

-----------------------------------------------------------------------------
(* SpecBackoff: one request answered 429 again and again                   *)
(* getLikedSongs + the loop of fetchAllLikedSongs, getMultipleArtists,     *)
(* cachedJsonFetch                                                         *)

MaxRetries == 3

Requesters == {"page", "artists", "lastfm"}

\* the Retry-After header of a 429: missing, or some text
NoRetryAfter     == [given |-> FALSE]
RetryAfter(text) == [given |-> TRUE, text |-> text]
RetryAfterTexts  == {<<>>, <<"0">>, <<"1">>, <<"2">>, <<"3", "0">>, <<"-", "5">>,
                     <<"W", "e", "d">>}
RetryAfterValues == {NoRetryAfter} \cup {RetryAfter(t) : t \in RetryAfterTexts}

DefaultRetryAfter == <<"1">>
LastfmMinWait     == 1
LastfmMaxWait     == 10

\* a JavaScript number: an integer here, or NaN
NaN       == [nan |-> TRUE]
Number(n) == [nan |-> FALSE, value |-> n]

DigitValue(c) == CHOOSE n \in 0..9 : <<"0","1","2","3","4","5","6","7","8","9">>[n + 1] = c

RECURSIVE digitsValue(_)
digitsValue(s) ==
    IF s = <<>> THEN 0
    ELSE digitsValue(SubSeq(s, 1, Len(s) - 1)) * 10 + DigitValue(s[Len(s)])

\* the longest prefix of s made of digits
leadingDigits(s) ==
    LET n == CHOOSE k \in 0..Len(s) :
                 /\ \A i \in 1..k : s[i] \in Digits
                 /\ k < Len(s) => s[k + 1] \notin Digits
    IN  SubSeq(s, 1, n)

\* parseInt(text): leading white space skipped, an optional sign, then the
\* leading digits; NaN when there is no digit
parseInt(text) ==
    LET t == trimStart(text)
        signed == t # <<>> /\ t[1] \in {"-", "+"}
        d == leadingDigits(IF signed THEN Tail(t) ELSE t)
    IN  IF d = <<>> THEN NaN
        ELSE Number(IF signed /\ t[1] = "-" THEN 0 - digitsValue(d) ELSE digitsValue(d))

\* Math.max, Math.min and * give NaN as soon as an operand is NaN
mathMax(a, x) == IF x.nan THEN NaN ELSE Number(Max(a, x.value))
mathMin(a, x) == IF x.nan THEN NaN ELSE Number(Min(a, x.value))
times(x, k)   == IF x.nan THEN NaN ELSE Number(x.value * k)

\* parseInt(headers.get('Retry-After') || '1'): a missing or empty header
\* is falsy
retryAfterOf(header) ==
    parseInt(IF header.given /\ header.text # <<>> THEN header.text ELSE DefaultRetryAfter)

\* sleep(ms): setTimeout takes NaN and negative delays as 0
timerDelay(ms) == IF ms.nan THEN 0 ELSE Max(0, ms.value)

\* the milliseconds slept before the request is repeated
waitMs(who, header) ==
    IF who = "lastfm"
    THEN timerDelay(times(mathMin(LastfmMaxWait, mathMax(LastfmMinWait, retryAfterOf(header))), 1000))
    ELSE timerDelay(times(retryAfterOf(header), 1000))

backoffFrame == <<uiVars, storeVars, labelIn, tagsIn, probe, upstream, runVars, mapVars>>

InitBackoff ==
    /\ showAnalysis = FALSE
    /\ RunAtRest
    /\ MapIdle
    /\ library = <<>>
    /\ lastfmEnabled = TRUE
    /\ songs = <<>>
    /\ selectedGenre = <<>>
    /\ genreSource = "both"
    /\ labelIn = <<>> /\ tagsIn = <<>> /\ probe = NoProbe /\ upstream = <<>>
    /\ retry \in {[who |-> w, at |-> "request", waits |-> <<>>] : w \in Requesters}

\* the request is answered 429: the requester sleeps
RateLimited(header) ==
    /\ retry.at = "request"
    /\ Len(retry.waits) < MaxRetries
    /\ retry' = [retry EXCEPT !.at = "sleep",
                              !.waits = Append(@, waitMs(retry.who, header))]
    /\ UNCHANGED backoffFrame

\* the sleep ends: the same request is made again
RetrySleepDone ==
    /\ retry.at = "sleep"
    /\ retry' = [retry EXCEPT !.at = "request"]
    /\ UNCHANGED backoffFrame

\* the request is answered with something else
Answered ==
    /\ retry.at = "request"
    /\ retry' = [retry EXCEPT !.at = "done"]
    /\ UNCHANGED backoffFrame

NextBackoff ==
    \/ \E header \in RetryAfterValues : RateLimited(header)
    \/ RetrySleepDone
    \/ Answered

SpecBackoff == InitBackoff /\ [][NextBackoff]_vars

\* C22: when one request is rate-limited repeatedly, every wait is longer
\* than the wait before it, by a factor of at least two.
C22_WaitsGrowGeometrically ==
    \A i \in 2..Len(retry.waits) : retry.waits[i] >= 2 * retry.waits[i - 1]
                                   /\ retry.waits[i] > retry.waits[i - 1]

-----------------------------------------------------------------------------
(* SpecPaging: runs against an upstream whose pages report a next, a total *)
(* and a number of items that need not agree with each other               *)

MaxPages == 2

PageShape(next, total, count) == [next |-> next, total |-> total, count |-> count]

PageShapes == {PageShape(nx, t, c) : nx \in {"next", Null}, t \in {0, 7}, c \in {0, 2}}

\* two full pages' worth of items are announced, 52 are delivered
LongScript == <<PageShape("next", 120, 50), PageShape(Null, 7, 2)>>

\* the last page of an upstream has no next
PageScripts ==
    {sc \in UNION {[1..n -> PageShapes] : n \in 1..MaxPages} : sc[Len(sc)].next = Null}
        \cup {LongScript}

InitPaging ==
    /\ showAnalysis = FALSE
    /\ RunAtRest
    /\ MapIdle
    /\ library = <<>>
    /\ lastfmEnabled = TRUE
    /\ songs = <<>>
    /\ selectedGenre = <<>>
    /\ genreSource = "both"
    /\ labelIn = <<>> /\ tagsIn = <<>> /\ probe = NoProbe /\ retry = NoRetry
    /\ upstream \in PageScripts

SpecPaging == InitPaging /\ [][Next]_vars

OkPages == {i \in DOMAIN pageLog : pageLog[i].outcome = "ok"}
LastPage == pageLog[Len(pageLog)]

\* the loop stops after the first returned page without a next and goes on
\* after every returned page with one
StopsOnNextOnly ==
    /\ \A i \in OkPages : i < Len(pageLog) => pageLog[i].next # Null
    /\ pageLog # <<>> /\ LastPage.outcome = "ok" /\ LastPage.next # Null =>
          pc \in {"page_delay", "page_wait"}
    /\ pageLog # <<>> /\ LastPage.outcome = "ok" /\ LastPage.next = Null =>
          pc \notin {"page_wait", "rate_sleep"}
    /\ PagingDone => pageLog # <<>> /\ LastPage.outcome = "ok" /\ LastPage.next = Null

\* the estimate is the total of the first returned page
TotalFromFirstPage ==
    OkPages # {} =>
        estimatedTotal = pageLog[CHOOSE i \in OkPages : \A j \in OkPages : i <= j].total

\* C23: the pagination loop stops after exactly the first returned page whose
\* next is null and goes on after every page whose next is present, whatever
\* total and number of items the pages report, and the estimated total is the
\* total the first returned page reported.
C23_TerminationOnNextOnly == StopsOnNextOnly /\ TotalFromFirstPage

-----------------------------------------------------------------------------
(* Claims about the batch resolver (Spec)                                  *)

chunkKey(k) == spotifyKey("artists", chunks[k], accessToken)

\* C24: when getMultipleArtists has returned, the ids of every chunk whose
\* request was answered successfully, before or after a chunk that failed,
\* are keys of the returned map.
C24_OnlyFailedChunkSkipped ==
    pc = "processing" =>
        \A k \in DOMAIN chunks :
            cacheHas(chunkKey(k)) => Range(chunks[k]) \subseteq DOMAIN genreMap

ProgressCalls == SelectSeq(artistLog, LAMBDA e : "current" \in DOMAIN e)

\* C25: the progress calls of a resolution are (1, n), (2, n), ... with n the
\* number of chunks, one per chunk and without a gap, repeat or reset, and
\* when the resolution has returned the last of them is (n, n).
C25_ProgressOncePerChunk ==
    /\ \A j \in DOMAIN ProgressCalls :
          ProgressCalls[j].current = j /\ ProgressCalls[j].total = Len(chunks)
    /\ pc \in {"artists_wait", "artists_rl_sleep", "chunk_delay"} =>
          Len(ProgressCalls) = completedChunks
    /\ ArtistsReturned => Len(ProgressCalls) = Len(chunks)

-----------------------------------------------------------------------------
(* Claim about the invocations of mapWithConcurrency (SpecMap)             *)

MapSettled == mState \in {"resolved", "rejected"} /\ mWorkers = 0

-----------------------------------------------------------------------------
(* Claim about cache hits (SpecCache)                                      *)

FromNetwork == {"network", "retry", "rejected"}

\* C27: a call of cachedFetch or cachedJsonFetch made while the store holds a
\* record under its key written less than 24 hours ago makes no request and
\* writes nothing: it returns the recorded body, cachedFetch as a response of
\* status 200 with the recorded headers; this is so whatever the calls before
\* it were answered, a 429 included.
C27_HitMakesNoRequest ==
    [][lastFetch'.seq = lastFetch.seq + 1 /\ Recent(cache, lastFetch'.key, now) # {} =>
          /\ lastFetch'.source \notin FromNetwork
          /\ cache' = cache
          /\ \E e \in cache :
                /\ e.key = lastFetch'.key
                /\ lastFetch'.response.body = e.response
                /\ lastFetch'.key.api # "lastfm" =>
                      /\ lastFetch'.response.status = 200
                      /\ lastFetch'.response.headers = e.headers
      ]_vars

\* a Spotify call is answered from a record written twelve hours earlier
C27_Witness ==
    /\ Fetched
    /\ lastFetch.source = "cache"
    /\ lastFetch.key.api = "tracks"
    /\ \E e \in Records(cache, lastFetch.key) : lastFetch.at = e.storedAt + 12

-----------------------------------------------------------------------------
(* Claims about the requests in flight during a run (Spec)                 *)

PageInFlight    == IF pc = "page_wait" THEN {<<"tracks", offset>>} ELSE {}
ArtistsInFlight == IF pc = "artists_wait" THEN {<<"artists", chunkIdx>>} ELSE {}
SpotifyInFlight == PageInFlight \cup ArtistsInFlight
LastfmInFlight  == {idx \in DOMAIN lkp : lkp[idx].at = "fetch"}

PagesDone == pageLog # <<>> /\ LastPage.outcome = "ok" /\ LastPage.next = Null

\* C28: at most one Spotify request is in flight; an artist request is made
\* only after the last page has been returned and after every chunk before
\* its own is done with; Last.fm requests are in flight only after the
\* resolver has returned, and never together with a Spotify request.
C28_OneSpotifyRequestAtATime ==
    /\ Cardinality(SpotifyInFlight) <= 1
    /\ ArtistsInFlight # {} =>
          /\ PagesDone
          /\ ~ArtistsReturned
          /\ completedChunks = chunkIdx
    /\ PageInFlight # {} => ~ArtistsReturned /\ ProgressCalls = <<>>
    /\ LastfmInFlight # {} => ArtistsReturned /\ PagesDone /\ SpotifyInFlight = {}

\* three Last.fm requests are in flight after a resolution of two chunks
C28_Witness ==
    /\ pc = "lastfm_wait"
    /\ Cardinality(LastfmInFlight) >= 3
    /\ Len(chunks) = 2
    /\ Len(ProgressCalls) = 2

\* C29: no two Last.fm requests in flight at the same time have the same
\* cache key, whichever strategies of whichever artist/track pairs they
\* belong to.
C29_DistinctKeysInFlight ==
    \A i, j \in LastfmInFlight :
        i # j /\ ~cacheHas(lookupKey(i)) => lookupKey(i) # lookupKey(j)

-----------------------------------------------------------------------------
(* Claims about the end of a run (SpecFaulty)                               *)

RunActive == pc \notin {"idle", "ended", "rejected"}

RunOver ==
    /\ pc = "ended"
    /\ loading = FALSE
    /\ (loadingState.phase = "complete" \/ error # Null)

PositionKept ==
    /\ (pc = "rate_sleep" \/ pc' = "rate_sleep") => UNCHANGED <<offset, allSongs>>
    /\ (pc = "artists_rl_sleep" \/ pc' = "artists_rl_sleep")
           => UNCHANGED <<chunkIdx, genreMap, completedChunks>>
    /\ \A idx \in DOMAIN lkp \cap DOMAIN lkp' :
           lkp[idx].at = "rl_sleep" \/ lkp'[idx].at = "rl_sleep"
               => lkp'[idx].cand = lkp[idx].cand /\ lkp'[idx].tried = lkp[idx].tried

C31_LastfmWaitClamped ==
    retry.who = "lastfm" =>
        \A i \in DOMAIN retry.waits : retry.waits[i] >= 1000 /\ retry.waits[i] <= 10000

-----------------------------------------------------------------------------
(* SpecSnapshot: runs over a liked collection that changes between runs    *)

OldLibrary == [i \in 1..51 |-> i]

\* the user likes fifty more tracks: Spotify lists the newest likes first
NewLibrary == [i \in 1..50 |-> 51 + i] \o OldLibrary

Versions == {OldLibrary, NewLibrary}

InitSnapshot ==
    /\ showAnalysis = FALSE
    /\ RunAtRest
    /\ MapIdle
    /\ TextIdle
    /\ library = OldLibrary
    /\ lastfmEnabled = TRUE
    /\ songs = <<>>
    /\ selectedGenre = <<>>
    /\ genreSource = "both"

\* between two runs the upstream collection changes
LibraryChanges ==
    /\ NoRunActive
    /\ library = OldLibrary
    /\ library' = NewLibrary
    /\ UNCHANGED <<uiVars, mapVars, storeVars, textVars, hookVars, pc, pageVars,
                   accessToken, cache, runs, faults, pageLog, lastfmEnabled,
                   artistVars, fanVars>>

NextSnapshot == Next \/ LibraryChanges

SpecSnapshot == InitSnapshot /\ [][NextSnapshot]_vars

publishedTracks == [i \in DOMAIN songs |-> songs[i].track]

\* C32: the collection of a completed run holds each item of one single
\* upstream version exactly once, also when some pages came from the cache
\* and others from the network.
C32_OneSnapshotPerRun ==
    RunCompleted =>
        \E v \in Versions :
            /\ Len(publishedTracks) = Len(v)
            /\ Range(publishedTracks) = Range(v)

-----------------------------------------------------------------------------
(* SpecApp: the runs as the pages of App let the user start them           *)

\* App's render: the first condition that holds picks the page
page ==
    IF accessToken = Null THEN "login"
    ELSE IF ~showAnalysis THEN "home"
    ELSE IF loading THEN "loading"
    ELSE IF error # Null THEN "error"
    ELSE "results"

\* home page, Start Analysis: setShowAnalysis(true); refetch()
HandleStartAnalysis ==
    /\ page = "home"
    /\ showAnalysis' = TRUE
    /\ refetch
    /\ UNCHANGED <<selectedGenre, genreSource>>

\* results page, Refresh Data: onClick={refreshData}
RefreshClicked ==
    /\ page = "results"
    /\ refreshData
    /\ UNCHANGED uiVars

\* results page, Back to Home: setShowAnalysis(false)
BackToHome ==
    /\ page = "results"
    /\ showAnalysis' = FALSE
    /\ UNCHANGED <<selectedGenre, genreSource, runVars, mapVars, storeVars, textVars>>

NextApp ==
    \/ HandleStartAnalysis
    \/ RefreshClicked
    \/ BackToHome
    \/ RunSteps

SpecApp == Init /\ [][NextApp]_vars

\* the page shown has a button that starts a run
StartOffered == page \in {"home", "results"}

\* C33: while a run has not ended, the refresh still clearing the cache
\* included, the page shown offers no action that starts a run.
C33_OneRunAtATime == RunActive => ~StartOffered

-----------------------------------------------------------------------------
(* Claims about what is left of a run that has ended (Spec)                *)

\* a step in which a worker calls cachedJsonFetch: for a new item, for the
\* next strategy, or again after a 429
LookupIssued ==
    \E idx \in DOMAIN lkp' :
        /\ lkp'[idx].at = "fetch"
        /\ \/ idx \notin DOMAIN lkp
           \/ lkp[idx].at # "fetch"
           \/ lkp[idx].cand # lkp'[idx].cand

\* C34: once a run has ended it issues no further request and updates
\* loadingState, songs and error no more; after a failed fan-out no worker
\* pulls items or overwrites the idle phase.
C34_EndedRunIsQuiet ==
    [][pc = "ended" /\ pc' = "ended" =>
          /\ UNCHANGED <<loadingState, songs, error>>
          /\ ~LookupIssued
          /\ nextIndex' = nextIndex]_vars

-----------------------------------------------------------------------------
(* Claims about loadingState during a run (Spec)                           *)

\* the order of the steps on the progress screen
phaseRank(phase) ==
    IF phase = "fetching_songs" THEN 1
    ELSE IF phase = "fetching_genres" THEN 2
    ELSE IF phase = "processing" THEN 3
    ELSE IF phase = "complete" THEN 4
    ELSE 0

\* a step of a run that is under way, not the one that begins it
WithinRun == pc \notin {"idle", "ended", "rejected", "clearing"}

\* C35: within one run the phase only moves forward, fetching_songs,
\* fetching_genres, processing, complete; the only other transition is to
\* idle when the run fails, and complete is reached only from processing.
C35_PhaseOnlyForward ==
    [][WithinRun /\ loadingState'.phase # loadingState.phase =>
          /\ \/ phaseRank(loadingState'.phase) > phaseRank(loadingState.phase)
             \/ loadingState'.phase = "idle" /\ error' # Null
          /\ loadingState'.phase = "complete" => loadingState.phase = "processing"]_vars

-----------------------------------------------------------------------------
(* Claims about what a run publishes (Spec)                                *)

RunFailed == pc = "ended" /\ runs > 0 /\ error # Null

\* C36: a failed run publishes nothing: songs and genreStats change only in
\* the step that completes a run without error, so a run that ends with an
\* error leaves them as they were before it started.
C36_FailedRunPublishesNothing ==
    [][songs' # songs \/ genreStats' # genreStats =>
          /\ pc' = "ended"
          /\ error' = Null
          /\ loadingState'.phase = "complete"]_vars

\* the second run failed after the first had published its songs
C36_Witness ==
    /\ RunFailed
    /\ runs = 2
    /\ songs # <<>>
    /\ genreStats # NoGenreStats
    /\ allSongs = <<>> \/ Len(allSongs) < Len(songs)

-----------------------------------------------------------------------------
(* Claims about the progress shown (SpecSnapshot)                          *)

HasProgress == loadingState.progress # NoProgress

\* C38: a progress that is present has total >= 1 and 0 <= current <= total;
\* within one progress key current never decreases during a run, and for
\* the Last.fm stage it grows by one per completed lookup and has reached
\* total when the fan-out resolves.
C38_ProgressWithinBounds ==
    [][/\ HasProgress' =>
            /\ loadingState'.progress.total >= 1
            /\ loadingState'.progress.current >= 0
            /\ loadingState'.progress.current <= loadingState'.progress.total
       /\ (/\ HasProgress /\ HasProgress'
           /\ loadingState'.progressKey = loadingState.progressKey
           /\ runs' = runs /\ pc # "clearing") =>
            /\ loadingState'.progress.current >= loadingState.progress.current
            /\ loadingState.progressKey = "lastfm" =>
                  /\ loadingState'.progress.current = completed'
                  /\ completed' \in {completed, completed + 1}
       /\ (mState' = "resolved" /\ mState = "running") =>
            completed' = Len(mItems)]_vars

-----------------------------------------------------------------------------
(* SpecToggle: the filter box and the genre tags of GenreFilter            *)

\* next.join(", ")
RECURSIVE joinTerms(_)
joinTerms(terms) ==
    IF terms = <<>> THEN <<>>
    ELSE IF Len(terms) = 1 THEN terms[1]
    ELSE terms[1] \o <<",", " ">> \o joinTerms(Tail(terms))

Modes == {"include", "exclude"}

\* GenreFilter.toggleGenre: the text handed to onGenreChange, or the text
\* as it is when the tag has no search key
toggleGenre(input, genre, mode) ==
    LET gKey  == toGenreSearchKey(genre)
        terms == rawTerms(input)
        matches(term) ==
            LET key == termKey(term)
            IN  key # <<>> /\ key = gKey /\ ((mode = "exclude") = isExcludeTerm(term))
        hits  == {i \in DOMAIN terms : matches(terms[i])}
        first == CHOOSE i \in hits : \A j \in hits : i <= j
        next  == IF hits # {}
                 THEN pick(terms, DOMAIN terms \ {first})
                 ELSE Append(terms, IF mode = "exclude" THEN <<"-">> \o genre ELSE genre)
    IN  IF gKey = <<>> THEN input ELSE joinTerms(next)

\* the labels of the tags shown
TagH == <<"H">>
TagT == <<"t">>
ClickableGenres == {TagH, TagT, Trap, RnB}

InitToggle ==
    /\ showAnalysis = FALSE
    /\ RunAtRest
    /\ library = <<>>
    /\ lastfmEnabled = TRUE
    /\ songs = <<>>
    /\ selectedGenre \in SeedTexts
    /\ genreSource = "both"
    /\ MapIdle
    /\ TextIdle

\* a tag is clicked: toggleGenre(genre, excludeMode ? "exclude" : "include")
ToggleGenre(genre, mode) ==
    /\ selectedGenre \in SeedTexts \/ Len(selectedGenre) <= MaxQueryLen
    /\ selectedGenre' = toggleGenre(selectedGenre, genre, mode)
    /\ UNCHANGED <<genreSource, showAnalysis, runVars, mapVars, storeVars, textVars>>

NextToggle ==
    \/ \E c \in QueryChars : TypeChar(c)
    \/ ClearFilter
    \/ \E genre \in ClickableGenres : \E mode \in Modes : ToggleGenre(genre, mode)

SpecToggle == InitToggle /\ [][NextToggle]_vars

listOf(query, mode) ==
    IF mode = "exclude" THEN Range(query.exclude) ELSE Range(query.include)

otherMode(mode) == IF mode = "exclude" THEN "include" ELSE "exclude"

\* what the claim says of one click on the text as it stands
Toggles(text, genre, mode) ==
    LET key    == toGenreSearchKey(genre)
        before == parseGenreQuery(text)
        once   == toggleGenre(text, genre, mode)
        after  == parseGenreQuery(once)
        twice  == parseGenreQuery(toggleGenre(once, genre, mode))
    IN  /\ key \notin listOf(before, mode) => key \in listOf(after, mode)
        /\ key \in listOf(before, mode) => key \notin listOf(after, mode)
        /\ listOf(after, otherMode(mode)) = listOf(before, otherMode(mode))
        /\ listOf(after, mode) \ {key} = listOf(before, mode) \ {key}
        /\ listOf(twice, mode) = listOf(before, mode)
        /\ listOf(twice, otherMode(mode)) = listOf(before, otherMode(mode))

\* C39: clicking a tag toggles its key in the list of the click mode and
\* leaves the other list and the other keys alone, and a second click
\* restores the parsed query, for every filter text.
C39_ClickTogglesKey ==
    \A genre \in ClickableGenres : \A mode \in Modes :
        Toggles(selectedGenre, genre, mode)

====
